---- MODULE Spec2Model ----
(***************************************************************************)
(* MCP23017 16-bit I2C GPIO expander driver: the chip-level typestate      *)
(* handle of src/src/chipmode.rs, the register map and bit algebra of      *)
(* src/src/registers.rs and src/src/prelude.rs, and the I2C transactions   *)
(* the driver issues.                                                      *)
(*                                                                         *)
(* One action per driver operation.  An action runs the whole operation:   *)
(* every transaction it issues, in order, up to the first transport        *)
(* failure (the `?` early returns of the code).  The transport's answers   *)
(* are inputs: which transaction (if any) fails is drawn with \E; bytes    *)
(* read come from the device's register file.                              *)
(***************************************************************************)
EXTENDS Integers, Sequences, FiniteSets, TLC

VARIABLES
    phase,      \* type-level State tag of the live handle, "None" before new, "Consumed" once moved away
    born,       \* the State tag the handle was constructed with by new
    address,    \* MCP23017.address
    regs,       \* the device's register file, by register address
    op,         \* the last operation called: name, arguments, phase it was called in
    tx,         \* the transactions the last operation issued, in order
    res,        \* the Result of the last operation
    ret,        \* the value the last operation returned (<<>> when none)
    nops,       \* operations called on the handle so far
    again,      \* the last call repeated the call before it: same operation, same arguments
    handle      \* which facade the handle belongs to, with the port / pin fixed in its type

vars == <<phase, born, address, regs, op, tx, res, ret, nops, again, handle>>

----------------------------------------------------------------------------
(* Bounds of the model *)

\* operations called on one handle
MaxOps == 3
\* a transport failure is injected at transaction 1..MaxFail of an operation (0: none)
MaxFail == 4
\* pins used as arguments: 0..NumLowPins-1 and pin 7
NumLowPins == 1

----------------------------------------------------------------------------
(* Register map: registers.rs, prelude.rs *)

Iodir == 0
Ipol == 2
Gpinten == 4
Defval == 6
Intcon == 8
Iocon == 10
Gppu == 12
Intf == 14
Intcap == 16
Gpio == 18
Olat == 20

Porta == 0
Portb == 1

DEFAULT_ADDRESS == 32

Registers == {Iodir, Ipol, Gpinten, Defval, Intcon, Iocon, Gppu, Intf, Intcap, Gpio, Olat}
Ports == {Porta, Portb}
PinNumbers == 0..7
PinSets == {"Low", "High"}
States == {"Configuring", "OutputReady", "InputConfiguring", "InputReady"}

\* InterruptMirror::MirrorOn as u8
MirrorOn == 64

----------------------------------------------------------------------------
(* u8 arithmetic *)

RECURSIVE BitAnd(_, _)
BitAnd(a, b) ==
    IF a = 0 \/ b = 0 THEN 0
    ELSE (a % 2) * (b % 2) + 2 * BitAnd(a \div 2, b \div 2)

RECURSIVE BitOr(_, _)
BitOr(a, b) ==
    IF a = 0 THEN b
    ELSE IF b = 0 THEN a
    ELSE (IF a % 2 = 1 \/ b % 2 = 1 THEN 1 ELSE 0) + 2 * BitOr(a \div 2, b \div 2)

\* `!x` on a u8
BitNot(a) == 255 - a

\* `x >> n` on a u8
Shr(a, n) == a \div (2 ^ n)

\* bit i of byte b, for stating properties
Bit(b, i) == (b \div (2 ^ i)) % 2

----------------------------------------------------------------------------
(* Bit / pin algebra: registers.rs *)

\* mutant: the mask is the pin number plus one
pin_number_to_mask_plus_one(pin) == pin + 1

pin_number_to_mask(pin) ==
    CASE pin = 0 -> 1
      [] pin = 1 -> 2
      [] pin = 2 -> 4
      [] pin = 3 -> 8
      [] pin = 4 -> 16
      [] pin = 5 -> 32
      [] pin = 6 -> 64
      [] pin = 7 -> 128

\* mutant: the bit is toggled
bit_set_toggling(byte, pin) ==
    IF Bit(byte, pin) = 1 THEN byte - pin_number_to_mask(pin)
                          ELSE byte + pin_number_to_mask(pin)

\* mutant: the mask replaces the byte
bit_set_mask_only(byte, pin) == pin_number_to_mask(pin)

bit_set(byte, pin) == BitOr(byte, pin_number_to_mask(pin))

\* mutant: the mask is not inverted
bit_clear_mask_kept(byte, pin) == BitAnd(byte, pin_number_to_mask(pin))

bit_clear(byte, pin) == BitAnd(byte, BitNot(pin_number_to_mask(pin)))

\* mutant: the masked bit is not shifted down
bit_read_unshifted(byte, pin) == BitAnd(byte, pin_number_to_mask(pin))

bit_read(byte, pin) == Shr(BitAnd(byte, pin_number_to_mask(pin)), pin)

\* mutant: the two bytes in little-endian order
to_le_bytes(value) == <<value % 256, value \div 256>>

\* u16::to_be_bytes
to_be_bytes(value) == <<value \div 256, value % 256>>

----------------------------------------------------------------------------
(* The device behind the transport *)

RegAddrs == 0..21

\* a successful write of [register address, data...]: data bytes land at
\* consecutive register addresses starting at the one sent
ChipWrite(r, bytes) ==
    [a \in RegAddrs |->
        IF a >= bytes[1] /\ a - bytes[1] + 2 <= Len(bytes)
        THEN bytes[a - bytes[1] + 2]
        ELSE r[a]]

\* a successful read of n bytes starting at register address a
ChipRead(r, a, n) == [i \in 1..n |-> r[a + i - 1]]

----------------------------------------------------------------------------
(* Transport: embedded_hal I2c write / write_read, as the driver calls them *)

\* The bus context an operation threads through its transactions:
\* regs: device registers; tx: transactions issued so far; fail: the index of
\* the transaction that fails (0: none); ok: whether the last one succeeded;
\* rx: the read buffer of the last write_read; other: what another bus master
\* writes to the device once transaction number `at` of the operation is over
\* (at 0: the bus has no other master).
Ctx(r, f) ==
    [regs |-> r, tx |-> <<>>, fail |-> f, ok |-> TRUE, rx |-> <<>>,
     other |-> [at |-> 0, bytes |-> <<>>]]

\* the bus with another master that writes `bytes` after transaction k
CtxRaced(r, f, k, bytes) == [Ctx(r, f) EXCEPT !.other = [at |-> k, bytes |-> bytes]]

\* the device once transaction number k of the operation is over
Released(c, r, k) == IF c.other.at = k THEN ChipWrite(r, c.other.bytes) ELSE r

i2c_write(c, addr, bytes) ==
    LET good == Len(c.tx) + 1 # c.fail
    IN  [c EXCEPT
            !.tx = Append(@, [kind |-> "write", address |-> addr, bytes |-> bytes,
                              rx |-> <<>>, ok |-> good]),
            !.regs = Released(c, IF good THEN ChipWrite(@, bytes) ELSE @, Len(c.tx) + 1),
            !.ok = good,
            !.rx = <<>>]

i2c_write_read(c, addr, bytes, n) ==
    LET good == Len(c.tx) + 1 # c.fail
        buf == IF good THEN ChipRead(c.regs, bytes[1], n) ELSE [i \in 1..n |-> 0]
    IN  [c EXCEPT
            !.tx = Append(@, [kind |-> "write_read", address |-> addr, bytes |-> bytes,
                              rx |-> buf, ok |-> good]),
            !.regs = Released(c, @, Len(c.tx) + 1),
            !.ok = good,
            !.rx = buf]

----------------------------------------------------------------------------
(* RegReadWrite for MCP23017<I2C, State>: chipmode.rs *)

\* mutant: the transaction is addressed to the default bus address
write_config_default_address(c, addr, register, port, value) ==
    i2c_write(c, DEFAULT_ADDRESS, <<BitOr(register, port), value>>)

\* mutant: the port offset is left out
register_address_without_port(register, port) == register

\* `register as u8 | port as u8`
register_address_of(register, port) == BitOr(register, port)

read_config(c, addr, register, port) ==
    i2c_write_read(c, addr, <<register_address_of(register, port)>>, 1)

write_config(c, addr, register, port, value) ==
    i2c_write(c, addr, <<register_address_of(register, port), value>>)

\* What an operation hands back: the bus context it ended with, its Result,
\* the value it returned and the State tag of the handle afterwards.
Ret(c, result, value, state) ==
    [regs |-> c.regs, tx |-> c.tx, res |-> result, ret |-> value, phase |-> state]

----------------------------------------------------------------------------
(* impl MCP23017<I2C, Configuring> *)

\* mutant: the payload of set_as_output
set_as_input_zero(c, addr) ==
    LET c1 == write_config(c, addr, Iodir, Porta, 0)
    IN  IF ~c1.ok THEN Ret(c1, "CommunicationErr", <<>>, "Consumed")
        ELSE LET c2 == write_config(c1, addr, Iodir, Portb, 0)
             IN  IF ~c2.ok THEN Ret(c2, "CommunicationErr", <<>>, "Consumed")
                 ELSE Ret(c2, "Ok", <<>>, "InputConfiguring")

set_as_input(c, addr) ==
    LET c1 == write_config(c, addr, Iodir, Porta, 255)
    IN  IF ~c1.ok THEN Ret(c1, "CommunicationErr", <<>>, "Consumed")
        ELSE LET c2 == write_config(c1, addr, Iodir, Portb, 255)
             IN  IF ~c2.ok THEN Ret(c2, "CommunicationErr", <<>>, "Consumed")
                 ELSE Ret(c2, "Ok", <<>>, "InputConfiguring")

\* mutant: a failed Port B write is compensated by putting IODIRA back to its reset value
set_as_output_rolling_back(c, addr) ==
    LET c1 == write_config(c, addr, Iodir, Porta, 0)
    IN  IF ~c1.ok THEN Ret(c1, "CommunicationErr", <<>>, "Consumed")
        ELSE LET c2 == write_config(c1, addr, Iodir, Portb, 0)
             IN  IF ~c2.ok
                 THEN Ret(write_config(c2, addr, Iodir, Porta, 255),
                          "CommunicationErr", <<>>, "Consumed")
                 ELSE Ret(c2, "Ok", <<>>, "OutputReady")

set_as_output(c, addr) ==
    LET c1 == write_config(c, addr, Iodir, Porta, 0)
    IN  IF ~c1.ok THEN Ret(c1, "CommunicationErr", <<>>, "Consumed")
        ELSE LET c2 == write_config(c1, addr, Iodir, Portb, 0)
             IN  IF ~c2.ok THEN Ret(c2, "CommunicationErr", <<>>, "Consumed")
                 ELSE Ret(c2, "Ok", <<>>, "OutputReady")

----------------------------------------------------------------------------
(* impl MCP23017<I2C, OutputReady> *)

write(c, addr, value) ==
    LET register_address == Gpio
        bytes == to_be_bytes(value)
        c1 == i2c_write(c, addr, <<register_address, bytes[1], bytes[2]>>)
    IN  IF ~c1.ok THEN Ret(c1, "CommunicationErr", <<>>, "OutputReady")
        ELSE Ret(c1, "Ok", <<>>, "OutputReady")

\* mutant: a failed read is taken as 0 and the write goes ahead
write_pin_read_unchecked(c, addr, port, pin, value) ==
    LET c1 == read_config(c, addr, Gpio, port)
        result == IF value = "High" THEN bit_set(c1.rx[1], pin)
                                    ELSE bit_clear(c1.rx[1], pin)
        register_address == Gpio
        c2 == i2c_write(c1, addr, <<register_address, result>>)
    IN  IF ~c2.ok THEN Ret(c2, "CommunicationErr", <<>>, "OutputReady")
        ELSE Ret(c2, "Ok", <<>>, "OutputReady")

write_pin(c, addr, port, pin, value) ==
    LET c1 == read_config(c, addr, Gpio, port)
    IN  IF ~c1.ok THEN Ret(c1, "CommunicationErr", <<>>, "OutputReady")
        ELSE LET result == IF value = "High" THEN bit_set(c1.rx[1], pin)
                                             ELSE bit_clear(c1.rx[1], pin)
                 register_address == Gpio
                 c2 == i2c_write(c1, addr, <<register_address, result>>)
             IN  IF ~c2.ok THEN Ret(c2, "CommunicationErr", <<>>, "OutputReady")
                 ELSE Ret(c2, "Ok", <<>>, "OutputReady")

----------------------------------------------------------------------------
(* impl MCP23017<I2C, InputConfiguring> *)

\* mutant: Low shifts what GPPU holds down by one bit instead of writing 0x00
set_pull_drifting(c, addr, pull) ==
    LET result == IF pull = "High" THEN 255 ELSE Shr(c.regs[Gppu], 1)
        c1 == write_config(c, addr, Gppu, Porta, result)
    IN  IF ~c1.ok THEN Ret(c1, "CommunicationErr", <<>>, "Consumed")
        ELSE LET c2 == write_config(c1, addr, Gppu, Portb, result)
             IN  IF ~c2.ok THEN Ret(c2, "CommunicationErr", <<>>, "Consumed")
                 ELSE Ret(c2, "Ok", <<>>, "InputConfiguring")

\* mutant: both writes go to Port A
set_pull_porta_twice(c, addr, pull) ==
    LET result == IF pull = "High" THEN 255 ELSE 0
        c1 == write_config(c, addr, Gppu, Porta, result)
    IN  IF ~c1.ok THEN Ret(c1, "CommunicationErr", <<>>, "Consumed")
        ELSE LET c2 == write_config(c1, addr, Gppu, Porta, result)
             IN  IF ~c2.ok THEN Ret(c2, "CommunicationErr", <<>>, "Consumed")
                 ELSE Ret(c2, "Ok", <<>>, "InputConfiguring")

set_pull(c, addr, pull) ==
    LET result == IF pull = "High" THEN 255 ELSE 0
        c1 == write_config(c, addr, Gppu, Porta, result)
    IN  IF ~c1.ok THEN Ret(c1, "CommunicationErr", <<>>, "Consumed")
        ELSE LET c2 == write_config(c1, addr, Gppu, Portb, result)
             IN  IF ~c2.ok THEN Ret(c2, "CommunicationErr", <<>>, "Consumed")
                 ELSE Ret(c2, "Ok", <<>>, "InputConfiguring")

\* mutant: the Port A byte is written to both ports
set_interrupt_mirror_rega_twice(c, addr, mirror) ==
    LET c1 == read_config(c, addr, Iocon, Porta)
    IN  IF ~c1.ok THEN Ret(c1, "CommunicationErr", <<>>, "Consumed")
        ELSE
        LET c2 == read_config(c1, addr, Iocon, Portb)
        IN  IF ~c2.ok THEN Ret(c2, "CommunicationErr", <<>>, "Consumed")
            ELSE
            LET rega == IF mirror = "MirrorOn" THEN BitOr(c1.rx[1], MirrorOn)
                                               ELSE BitAnd(c1.rx[1], BitNot(MirrorOn))
                c3 == write_config(c2, addr, Iocon, Porta, rega)
            IN  IF ~c3.ok THEN Ret(c3, "CommunicationErr", <<>>, "Consumed")
                ELSE LET c4 == write_config(c3, addr, Iocon, Portb, rega)
                     IN  IF ~c4.ok THEN Ret(c4, "CommunicationErr", <<>>, "Consumed")
                         ELSE Ret(c4, "Ok", <<>>, "InputConfiguring")

set_interrupt_mirror(c, addr, mirror) ==
    LET c1 == read_config(c, addr, Iocon, Porta)
    IN  IF ~c1.ok THEN Ret(c1, "CommunicationErr", <<>>, "Consumed")
        ELSE
        LET c2 == read_config(c1, addr, Iocon, Portb)
        IN  IF ~c2.ok THEN Ret(c2, "CommunicationErr", <<>>, "Consumed")
            ELSE
            LET rega == IF mirror = "MirrorOn" THEN BitOr(c1.rx[1], MirrorOn)
                                               ELSE BitAnd(c1.rx[1], BitNot(MirrorOn))
                regb == IF mirror = "MirrorOn" THEN BitOr(c2.rx[1], MirrorOn)
                                               ELSE BitAnd(c2.rx[1], BitNot(MirrorOn))
                c3 == write_config(c2, addr, Iocon, Porta, rega)
            IN  IF ~c3.ok THEN Ret(c3, "CommunicationErr", <<>>, "Consumed")
                ELSE LET c4 == write_config(c3, addr, Iocon, Portb, regb)
                     IN  IF ~c4.ok THEN Ret(c4, "CommunicationErr", <<>>, "Consumed")
                         ELSE Ret(c4, "Ok", <<>>, "InputConfiguring")

\* mutant: the whole INTCON byte is set or cleared, not the pin's bit
set_interrupt_on_whole_port(c, addr, port, pin, interrupt_on) ==
    LET c1 == read_config(c, addr, Intcon, port)
    IN  IF ~c1.ok THEN Ret(c1, "CommunicationErr", <<>>, "Consumed")
        ELSE LET reg == IF interrupt_on = "PinChange" THEN 0 ELSE 255
                 c2 == write_config(c1, addr, Intcon, port, reg)
             IN  IF ~c2.ok THEN Ret(c2, "CommunicationErr", <<>>, "Consumed")
                 ELSE Ret(c2, "Ok", <<>>, "InputConfiguring")

set_interrupt_on(c, addr, port, pin, interrupt_on) ==
    LET c1 == read_config(c, addr, Intcon, port)
    IN  IF ~c1.ok THEN Ret(c1, "CommunicationErr", <<>>, "Consumed")
        ELSE LET reg == IF interrupt_on = "PinChange" THEN bit_clear(c1.rx[1], pin)
                                                      ELSE bit_set(c1.rx[1], pin)
                 c2 == write_config(c1, addr, Intcon, port, reg)
             IN  IF ~c2.ok THEN Ret(c2, "CommunicationErr", <<>>, "Consumed")
                 ELSE Ret(c2, "Ok", <<>>, "InputConfiguring")

\* mutant: the rejected call hands the handle back
set_interrupt_compare_keeps_handle(c, addr, port, pin, value) ==
    LET c1 == read_config(c, addr, Intcon, port)
    IN  IF ~c1.ok THEN Ret(c1, "CommunicationErr", <<>>, "Consumed")
        ELSE IF bit_read(c1.rx[1], pin) # 1
        THEN Ret(c1, "InvalidInterruptSetting", <<>>, "InputConfiguring")
        ELSE
        LET c2 == read_config(c1, addr, Defval, port)
        IN  IF ~c2.ok THEN Ret(c2, "CommunicationErr", <<>>, "Consumed")
            ELSE LET reg == IF value = "High" THEN bit_set(c2.rx[1], pin)
                                              ELSE bit_clear(c2.rx[1], pin)
                     c3 == write_config(c2, addr, Defval, port, reg)
                 IN  IF ~c3.ok THEN Ret(c3, "CommunicationErr", <<>>, "Consumed")
                     ELSE Ret(c3, "Ok", <<>>, "InputConfiguring")

\* mutant: DEFVAL is written first and INTCON validated afterwards
set_interrupt_compare_write_first(c, addr, port, pin, value) ==
    LET c1 == read_config(c, addr, Defval, port)
    IN  IF ~c1.ok THEN Ret(c1, "CommunicationErr", <<>>, "Consumed")
        ELSE
        LET reg == IF value = "High" THEN bit_set(c1.rx[1], pin)
                                     ELSE bit_clear(c1.rx[1], pin)
            c2 == write_config(c1, addr, Defval, port, reg)
        IN  IF ~c2.ok THEN Ret(c2, "CommunicationErr", <<>>, "Consumed")
            ELSE LET c3 == read_config(c2, addr, Intcon, port)
                 IN  IF ~c3.ok THEN Ret(c3, "CommunicationErr", <<>>, "Consumed")
                     ELSE IF bit_read(c3.rx[1], pin) # 1
                     THEN Ret(c3, "InvalidInterruptSetting", <<>>, "Consumed")
                     ELSE Ret(c3, "Ok", <<>>, "InputConfiguring")

set_interrupt_compare(c, addr, port, pin, value) ==
    LET c1 == read_config(c, addr, Intcon, port)
    IN  IF ~c1.ok THEN Ret(c1, "CommunicationErr", <<>>, "Consumed")
        ELSE IF bit_read(c1.rx[1], pin) # 1
        THEN Ret(c1, "InvalidInterruptSetting", <<>>, "Consumed")
        ELSE
        LET c2 == read_config(c1, addr, Defval, port)
        IN  IF ~c2.ok THEN Ret(c2, "CommunicationErr", <<>>, "Consumed")
            ELSE LET reg == IF value = "High" THEN bit_set(c2.rx[1], pin)
                                              ELSE bit_clear(c2.rx[1], pin)
                     c3 == write_config(c2, addr, Defval, port, reg)
                 IN  IF ~c3.ok THEN Ret(c3, "CommunicationErr", <<>>, "Consumed")
                     ELSE Ret(c3, "Ok", <<>>, "InputConfiguring")

\* mutant: the handle is re-tagged with the initial State
ready_retagged(c) == Ret(c, "Ok", <<>>, "Configuring")

\* mutant: the direction register is read back before the handle is handed over
ready_probing(c) ==
    LET c1 == i2c_write_read(c, DEFAULT_ADDRESS, <<Iodir>>, 1)
    IN  Ret(c1, "Ok", <<>>, "InputReady")

ready(c) == Ret(c, "Ok", <<>>, "InputReady")

----------------------------------------------------------------------------
(* impl MCP23017<I2C, InputReady> *)

\* mutant: the first byte is taken as the high byte
read_u16_be(buf) == 256 * buf[1] + buf[2]

\* byteorder LittleEndian::read_u16
read_u16_le(buf) == buf[1] + 256 * buf[2]

\* mutant: the lowest set bit is taken as the mask
PinMaskFrom_lowest_bit(value) == value - BitAnd(value, value - 1)

\* impl From<u8> for PinMask (PinMask::Invalid = 0x00)
PinMaskFrom(value) ==
    IF value \in {1, 2, 4, 8, 16, 32, 64, 128} THEN value ELSE 0

\* Option<PinNumber>: <<p>> is Some(p), <<>> is None
pin_mask_to_number(mask) ==
    CASE mask = 1 -> <<0>>
      [] mask = 2 -> <<1>>
      [] mask = 4 -> <<2>>
      [] mask = 8 -> <<3>>
      [] mask = 16 -> <<4>>
      [] mask = 32 -> <<5>>
      [] mask = 64 -> <<6>>
      [] mask = 128 -> <<7>>
      [] mask = 0 -> <<>>

\* mutant: a failed read is retried once
read_retrying(c, addr) ==
    LET register_address == Gpio
        c1 == i2c_write_read(c, addr, <<register_address>>, 2)
        c2 == IF c1.ok THEN c1 ELSE i2c_write_read(c1, addr, <<register_address>>, 2)
    IN  IF ~c2.ok THEN Ret(c2, "CommunicationErr", <<>>, "InputReady")
        ELSE Ret(c2, "Ok", <<read_u16_le(c2.rx)>>, "InputReady")

read(c, addr) ==
    LET register_address == Gpio
        c1 == i2c_write_read(c, addr, <<register_address>>, 2)
    IN  IF ~c1.ok THEN Ret(c1, "CommunicationErr", <<>>, "InputReady")
        ELSE Ret(c1, "Ok", <<read_u16_le(c1.rx)>>, "InputReady")

read_pin(c, addr, port, pin) ==
    LET register_address == BitOr(Gpio, port)
        c1 == i2c_write_read(c, addr, <<register_address>>, 1)
    IN  IF ~c1.ok THEN Ret(c1, "CommunicationErr", <<>>, "InputReady")
        ELSE Ret(c1, "Ok", <<bit_read(c1.rx[1], pin)>>, "InputReady")

disable_interrupt(c, addr, port, pin) ==
    LET c1 == read_config(c, addr, Gpinten, port)
    IN  IF ~c1.ok THEN Ret(c1, "CommunicationErr", <<>>, "InputReady")
        ELSE LET reg == bit_clear(c1.rx[1], pin)
                 c2 == write_config(c1, addr, Gpinten, port, reg)
             IN  Ret(c2, IF c2.ok THEN "Ok" ELSE "CommunicationErr", <<>>, "InputReady")

\* mutant: the interrupt is enabled only for a pin configured in INTCON
enable_interrupt_after_intcon(c, addr, port, pin) ==
    LET c0 == read_config(c, addr, Intcon, port)
    IN  IF ~c0.ok THEN Ret(c0, "CommunicationErr", <<>>, "InputReady")
        ELSE IF bit_read(c0.rx[1], pin) # 1
        THEN Ret(c0, "InvalidInterruptSetting", <<>>, "InputReady")
        ELSE
        LET c1 == read_config(c0, addr, Gpinten, port)
        IN  IF ~c1.ok THEN Ret(c1, "CommunicationErr", <<>>, "InputReady")
            ELSE LET reg == bit_set(c1.rx[1], pin)
                     c2 == write_config(c1, addr, Gpinten, port, reg)
                 IN  Ret(c2, IF c2.ok THEN "Ok" ELSE "CommunicationErr", <<>>, "InputReady")

\* mutant: the write goes to GPINTEN without the port offset
enable_interrupt_porta(c, addr, port, pin) ==
    LET c1 == read_config(c, addr, Gpinten, port)
    IN  IF ~c1.ok THEN Ret(c1, "CommunicationErr", <<>>, "InputReady")
        ELSE LET reg == bit_set(c1.rx[1], pin)
                 c2 == write_config(c1, addr, Gpinten, Porta, reg)
             IN  Ret(c2, IF c2.ok THEN "Ok" ELSE "CommunicationErr", <<>>, "InputReady")

enable_interrupt(c, addr, port, pin) ==
    LET c1 == read_config(c, addr, Gpinten, port)
    IN  IF ~c1.ok THEN Ret(c1, "CommunicationErr", <<>>, "InputReady")
        ELSE LET reg == bit_set(c1.rx[1], pin)
                 c2 == write_config(c1, addr, Gpinten, port, reg)
             IN  Ret(c2, IF c2.ok THEN "Ok" ELSE "CommunicationErr", <<>>, "InputReady")

\* mutant: a failed INTF read is reported as an error
get_interrupted_pin_propagating(c, addr, port) ==
    LET c1 == read_config(c, addr, Intf, port)
    IN  IF ~c1.ok THEN Ret(c1, "CommunicationErr", <<>>, "InputReady")
        ELSE LET found == pin_mask_to_number(PinMaskFrom(c1.rx[1]))
             IN  Ret(c1, IF found = <<>> THEN "None" ELSE "Some", found, "InputReady")

get_interrupted_pin(c, addr, port) ==
    LET c1 == read_config(c, addr, Intf, port)
        pin_msk == IF c1.ok THEN c1.rx[1] ELSE 0
        found == pin_mask_to_number(PinMaskFrom(pin_msk))
    IN  Ret(c1, IF found = <<>> THEN "None" ELSE "Some", found, "InputReady")

----------------------------------------------------------------------------
(* Port-level facade, PortA / PortB: portmode.rs.  The port is a field of the
   handle, fixed by its type. *)

portmode_read_config(c, addr, port, register) ==
    LET register_address == BitOr(register, port)
    IN  i2c_write_read(c, addr, <<register_address>>, 1)

\* mutant: the port offset is left out of the register address
portmode_write_config_porta(c, addr, port, register, value) ==
    LET register_address == register
    IN  i2c_write(c, addr, <<register_address, value>>)

portmode_write_config(c, addr, port, register, value) ==
    LET register_address == BitOr(register, port)
    IN  i2c_write(c, addr, <<register_address, value>>)

portmode_set_as_input(c, addr, port) ==
    LET c1 == portmode_write_config(c, addr, port, Iodir, 255)
    IN  IF ~c1.ok THEN Ret(c1, "CommunicationErr", <<>>, "Consumed")
        ELSE Ret(c1, "Ok", <<>>, "InputConfiguring")

portmode_set_as_output(c, addr, port) ==
    LET c1 == portmode_write_config(c, addr, port, Iodir, 0)
    IN  IF ~c1.ok THEN Ret(c1, "CommunicationErr", <<>>, "Consumed")
        ELSE Ret(c1, "Ok", <<>>, "OutputReady")

portmode_write_pin(c, addr, port, pin, value) ==
    LET c1 == portmode_read_config(c, addr, port, Gpio)
    IN  IF ~c1.ok THEN Ret(c1, "CommunicationErr", <<>>, "OutputReady")
        ELSE LET result == IF value = "High" THEN bit_set(c1.rx[1], pin)
                                             ELSE bit_clear(c1.rx[1], pin)
                 c2 == portmode_write_config(c1, addr, port, Gpio, result)
             IN  IF ~c2.ok THEN Ret(c2, "CommunicationErr", <<>>, "OutputReady")
                 ELSE Ret(c2, "Ok", <<>>, "OutputReady")

portmode_set_pull(c, addr, port, pull) ==
    LET result == IF pull = "High" THEN 255 ELSE 0
        c1 == portmode_write_config(c, addr, port, Gppu, result)
    IN  IF ~c1.ok THEN Ret(c1, "CommunicationErr", <<>>, "Consumed")
        ELSE Ret(c1, "Ok", <<>>, "InputConfiguring")

portmode_set_interrupt_mirror(c, addr, port, mirror) ==
    LET c1 == portmode_read_config(c, addr, port, Iocon)
    IN  IF ~c1.ok THEN Ret(c1, "CommunicationErr", <<>>, "Consumed")
        ELSE LET reg == IF mirror = "MirrorOn" THEN BitOr(c1.rx[1], MirrorOn)
                                               ELSE BitAnd(c1.rx[1], BitNot(MirrorOn))
                 c2 == portmode_write_config(c1, addr, port, Iocon, reg)
             IN  IF ~c2.ok THEN Ret(c2, "CommunicationErr", <<>>, "Consumed")
                 ELSE Ret(c2, "Ok", <<>>, "InputConfiguring")

----------------------------------------------------------------------------
(* Pin-level facade, Pina0 .. Pinb7: pinmode.rs.  Port and pin are fields of
   the handle, fixed by its type. *)

pinmode_read_config(c, addr, port, register) ==
    LET register_address == BitOr(register, port)
    IN  i2c_write_read(c, addr, <<register_address>>, 1)

pinmode_write_config(c, addr, port, register, value) ==
    LET register_address == BitOr(register, port)
    IN  i2c_write(c, addr, <<register_address, value>>)

\* mutant: the whole port is made input, as the port-level handle does
pinmode_set_as_input_whole_port(c, addr, port, pin) ==
    LET c1 == pinmode_read_config(c, addr, port, Iodir)
    IN  IF ~c1.ok THEN Ret(c1, "CommunicationErr", <<>>, "Consumed")
        ELSE LET c2 == pinmode_write_config(c1, addr, port, Iodir, 255)
             IN  IF ~c2.ok THEN Ret(c2, "CommunicationErr", <<>>, "Consumed")
                 ELSE Ret(c2, "Ok", <<>>, "InputConfiguring")

pinmode_set_as_input(c, addr, port, pin) ==
    LET c1 == pinmode_read_config(c, addr, port, Iodir)
    IN  IF ~c1.ok THEN Ret(c1, "CommunicationErr", <<>>, "Consumed")
        ELSE LET c2 == pinmode_write_config(c1, addr, port, Iodir, bit_set(c1.rx[1], pin))
             IN  IF ~c2.ok THEN Ret(c2, "CommunicationErr", <<>>, "Consumed")
                 ELSE Ret(c2, "Ok", <<>>, "InputConfiguring")

pinmode_set_as_output(c, addr, port, pin) ==
    LET c1 == pinmode_read_config(c, addr, port, Iodir)
    IN  IF ~c1.ok THEN Ret(c1, "CommunicationErr", <<>>, "Consumed")
        ELSE LET c2 == pinmode_write_config(c1, addr, port, Iodir, bit_clear(c1.rx[1], pin))
             IN  IF ~c2.ok THEN Ret(c2, "CommunicationErr", <<>>, "Consumed")
                 ELSE Ret(c2, "Ok", <<>>, "OutputReady")

\* mutant: the result is written to GPIO without the port offset
pinmode_write_porta(c, addr, port, pin, value) ==
    LET c1 == pinmode_read_config(c, addr, port, Gpio)
    IN  IF ~c1.ok THEN Ret(c1, "CommunicationErr", <<>>, "OutputReady")
        ELSE LET result == IF value = "High" THEN bit_set(c1.rx[1], pin)
                                             ELSE bit_clear(c1.rx[1], pin)
                 c2 == pinmode_write_config(c1, addr, Porta, Gpio, result)
             IN  IF ~c2.ok THEN Ret(c2, "CommunicationErr", <<>>, "OutputReady")
                 ELSE Ret(c2, "Ok", <<>>, "OutputReady")

pinmode_write(c, addr, port, pin, value) ==
    LET c1 == pinmode_read_config(c, addr, port, Gpio)
    IN  IF ~c1.ok THEN Ret(c1, "CommunicationErr", <<>>, "OutputReady")
        ELSE LET result == IF value = "High" THEN bit_set(c1.rx[1], pin)
                                             ELSE bit_clear(c1.rx[1], pin)
                 c2 == pinmode_write_config(c1, addr, port, Gpio, result)
             IN  IF ~c2.ok THEN Ret(c2, "CommunicationErr", <<>>, "OutputReady")
                 ELSE Ret(c2, "Ok", <<>>, "OutputReady")

pinmode_set_interrupt_mirror(c, addr, port, mirror) ==
    LET c1 == pinmode_read_config(c, addr, port, Iocon)
    IN  IF ~c1.ok THEN Ret(c1, "CommunicationErr", <<>>, "Consumed")
        ELSE LET reg == IF mirror = "MirrorOn" THEN BitOr(c1.rx[1], MirrorOn)
                                               ELSE BitAnd(c1.rx[1], BitNot(MirrorOn))
                 c2 == pinmode_write_config(c1, addr, port, Iocon, reg)
             IN  IF ~c2.ok THEN Ret(c2, "CommunicationErr", <<>>, "Consumed")
                 ELSE Ret(c2, "Ok", <<>>, "InputConfiguring")

----------------------------------------------------------------------------
(* lib.rs *)

SlaveAddressings == {"Low", "High"}

\* mutant: the first argument is taken as the least significant bit
convert_slave_address_lsb_first(a0, a1, a2) ==
    32 + (IF a0 = "High" THEN 1 ELSE 0) + (IF a1 = "High" THEN 2 ELSE 0)
       + (IF a2 = "High" THEN 4 ELSE 0)

convert_slave_address(a0, a1, a2) ==
    CASE a0 = "Low" /\ a1 = "Low" /\ a2 = "Low" -> 32
      [] a0 = "Low" /\ a1 = "Low" /\ a2 = "High" -> 33
      [] a0 = "Low" /\ a1 = "High" /\ a2 = "Low" -> 34
      [] a0 = "Low" /\ a1 = "High" /\ a2 = "High" -> 35
      [] a0 = "High" /\ a1 = "Low" /\ a2 = "Low" -> 36
      [] a0 = "High" /\ a1 = "Low" /\ a2 = "High" -> 37
      [] a0 = "High" /\ a1 = "High" /\ a2 = "Low" -> 38
      [] a0 = "High" /\ a1 = "High" /\ a2 = "High" -> 39

\* lib.rs PinNumber as u8: the discriminant of a pin is its mask
PinNumberAsMask(pin) ==
    CASE pin = 0 -> 1
      [] pin = 1 -> 2
      [] pin = 2 -> 4
      [] pin = 3 -> 8
      [] pin = 4 -> 16
      [] pin = 5 -> 32
      [] pin = 6 -> 64
      [] pin = 7 -> 128

\* lib.rs bit_set / bit_clear take the mask
lib_bit_set(byte, mask) == BitOr(byte, mask)

lib_bit_clear(byte, mask) == BitAnd(byte, BitNot(mask))

\* impl Operation for Pin<State>.  Pin.address is an Option<u8>: <<a>> is
\* Some(a), <<>> is None.  The outcome is the bus context and the Result.
Operation_write(c, addr, register, buf) ==
    IF addr # <<>>
    THEN [c |-> i2c_write(c, addr[1], <<register, buf>>), res |-> "Ok"]
    ELSE [c |-> c, res |-> "MissingAddress"]

Operation_read(c, addr, register) ==
    IF addr # <<>>
    THEN LET c1 == i2c_write_read(c, addr[1], <<register>>, 1)
         IN  [c |-> c1, res |-> IF c1.ok THEN "Ok" ELSE "CommunicationErr"]
    ELSE [c |-> c, res |-> "MissingAddress"]

\* impl Pin<NonConfigured>.  The three functions return the new Pin, not a
\* Result: res "Pin".  A panic ends the program: res "panic", State "Panicked".
set_pin_output(c, addr, port, mask) ==
    IF addr = <<>> THEN Ret(c, "panic", <<>>, "Panicked")
    ELSE LET result == Operation_read(c, addr, BitOr(Iodir, port))
         IN  IF result.res = "Ok"
             THEN LET w == Operation_write(result.c, addr, BitOr(Iodir, port),
                                           lib_bit_clear(result.c.rx[1], mask))
                  IN  Ret(w.c, "Pin", <<>>, "Output")
             ELSE Ret(result.c, "Pin", <<>>, "Output")

set_pin_input_pullup(c, addr, port, mask) ==
    LET result == Operation_read(c, addr, BitOr(Iodir, port))
        c2 == IF result.res = "Ok"
              THEN Operation_write(result.c, addr, BitOr(Iodir, port),
                                   lib_bit_clear(result.c.rx[1], mask)).c
              ELSE result.c
        pull == Operation_read(c2, addr, BitOr(Gppu, port))
        c4 == IF pull.res = "Ok"
              THEN Operation_write(pull.c, addr, BitOr(Gppu, port),
                                   lib_bit_set(pull.c.rx[1], mask)).c
              ELSE pull.c
    IN  Ret(c4, "Pin", <<>>, "InputPullUp")

set_pin_input(c, addr, port, mask) ==
    LET result == Operation_read(c, addr, BitOr(Iodir, port))
        c2 == IF result.res = "Ok"
              THEN Operation_write(result.c, addr, BitOr(Iodir, port),
                                   lib_bit_clear(result.c.rx[1], mask)).c
              ELSE result.c
    IN  Ret(c2, "Pin", <<>>, "Input")

\* impl Pin<Output>
high(c, addr, port, mask) ==
    LET buffer == Operation_read(c, addr, BitOr(Olat, port))
    IN  IF buffer.res # "Ok" THEN Ret(buffer.c, "panic", <<>>, "Panicked")
        ELSE LET c2 == i2c_write(buffer.c, addr[1],
                                 <<BitOr(Gpio, port), lib_bit_set(buffer.c.rx[1], mask)>>)
             IN  Ret(c2, IF c2.ok THEN "Ok" ELSE "CommunicationErr", <<>>, "Output")

low(c, addr, port, mask) ==
    LET buffer == Operation_read(c, addr, BitOr(Olat, port))
    IN  IF buffer.res # "Ok" THEN Ret(buffer.c, buffer.res, <<>>, "Output")
        ELSE LET c2 == i2c_write(buffer.c, addr[1],
                                 <<BitOr(Gpio, port), lib_bit_clear(buffer.c.rx[1], mask)>>)
             IN  Ret(c2, IF c2.ok THEN "Ok" ELSE "CommunicationErr", <<>>, "Output")

\* Mcp23017::find_me(address, i2c)
find_me(c, addr, state) ==
    LET c1 == i2c_write_read(c, addr, <<BitOr(Iodir, Porta)>>, 1)
    IN  IF ~c1.ok THEN Ret(c1, "CommunicationErr", <<>>, state)
        ELSE LET c2 == i2c_write_read(c1, addr, <<BitOr(Iodir, Portb)>>, 1)
             IN  IF ~c2.ok THEN Ret(c2, "CommunicationErr", <<>>, state)
                 ELSE Ret(i2c_write(c2, addr, <<Iocon, 128>>), "Ok", <<>>, state)

----------------------------------------------------------------------------
(* Inputs *)

\* bus address given to new: 0x40
AddressInputs == {64}
\* the byte every device register holds when the handle is constructed
InitBytes == {0, 255}
\* the bytes the Port A and the Port B registers hold when the handle is
\* constructed: one byte everywhere, or 0xAD on Port A and 0xDE on Port B
InitPairs == {<<b, b>> : b \in InitBytes} \cup {<<173, 222>>}
PinInputs == {p \in PinNumbers : p < NumLowPins \/ p = 7}
\* pins of the pin-level handles and of port-level write_pin: Pin3 as well
FacadePins == PinInputs \cup {3}
\* values given to write: 0x2211, 0x00FF
WriteInputs == {8721, 255}
\* registers and the value given to direct read_config / write_config calls
DirectRegisters == {Defval, Gpio}
DirectValues == {16}
\* the transactions of an operation issuing at most n at which a failure is injected
Fails(n) == {f \in 0..MaxFail : f <= n}

NoArgs == [port |-> 0, pin |-> 0, level |-> "", value |-> 0]

NoHandle == [kind |-> "none", port |-> 0, pin |-> 0]

----------------------------------------------------------------------------
(* State machine *)

Init ==
    /\ phase = "None"
    /\ born = "None"
    /\ address = 0
    /\ \E pr \in InitPairs : regs = [a \in RegAddrs |-> pr[(a % 2) + 1]]
    /\ op = [name |-> "none", phase |-> "None", args |-> NoArgs]
    /\ tx = <<>>
    /\ res = "none"
    /\ ret = <<>>
    /\ nops = 0
    /\ again = FALSE
    /\ handle = NoHandle

\* MCP23017::new, generic over State: `state: Default::default()`
New ==
    /\ phase = "None"
    /\ \E a \in AddressInputs, st \in States :
        /\ phase' = st
        /\ born' = st
        /\ address' = a
    /\ op' = [name |-> "new", phase |-> "None", args |-> NoArgs]
    /\ tx' = <<>>
    /\ res' = "Ok"
    /\ ret' = <<>>
    /\ handle' = [kind |-> "chip", port |-> 0, pin |-> 0]
    /\ UNCHANGED <<regs, nops, again>>

\* the handle after a call of operation `name` that handed back r
Called(name, args, r) ==
    /\ nops < MaxOps
    /\ phase' = r.phase
    /\ regs' = r.regs
    /\ tx' = r.tx
    /\ res' = r.res
    /\ ret' = r.ret
    /\ op' = [name |-> name, phase |-> phase, args |-> args]
    /\ nops' = nops + 1
    /\ again' = (op.name = name /\ op.args = args)
    /\ UNCHANGED <<born, address, handle>>

ReadConfig ==
    /\ phase \in States
    /\ \E f \in Fails(1), g \in DirectRegisters, p \in Ports :
        LET c == read_config(Ctx(regs, f), address, g, p)
        IN  Called("read_config", [NoArgs EXCEPT !.port = p, !.value = g],
                   Ret(c, IF c.ok THEN "Ok" ELSE "CommunicationErr",
                       IF c.ok THEN <<c.rx[1]>> ELSE <<>>, phase))

WriteConfig ==
    /\ phase \in States
    /\ \E f \in Fails(1), g \in DirectRegisters, p \in Ports, v \in DirectValues :
        LET c == write_config(Ctx(regs, f), address, g, p, v)
        IN  Called("write_config", [NoArgs EXCEPT !.port = p, !.value = g],
                   Ret(c, IF c.ok THEN "Ok" ELSE "CommunicationErr", <<>>, phase))

SetAsInput ==
    /\ phase = "Configuring"
    /\ \E f \in Fails(2) :
        Called("set_as_input", NoArgs, set_as_input(Ctx(regs, f), address))

SetAsOutput ==
    /\ phase = "Configuring"
    /\ \E f \in Fails(2) :
        Called("set_as_output", NoArgs, set_as_output(Ctx(regs, f), address))

Write ==
    /\ phase = "OutputReady"
    /\ \E f \in Fails(1), v \in WriteInputs :
        Called("write", [NoArgs EXCEPT !.value = v], write(Ctx(regs, f), address, v))

WritePin ==
    /\ phase = "OutputReady"
    /\ \E f \in Fails(2), p \in Ports, n \in PinInputs, v \in PinSets :
        Called("write_pin", [NoArgs EXCEPT !.port = p, !.pin = n, !.level = v],
               write_pin(Ctx(regs, f), address, p, n, v))

SetPull ==
    /\ phase = "InputConfiguring"
    /\ \E f \in Fails(2), v \in PinSets :
        Called("set_pull", [NoArgs EXCEPT !.level = v],
               set_pull(Ctx(regs, f), address, v))

SetInterruptMirror ==
    /\ phase = "InputConfiguring"
    /\ \E f \in Fails(4), m \in {"MirrorOn", "MirrorOff"} :
        Called("set_interrupt_mirror", [NoArgs EXCEPT !.level = m],
               set_interrupt_mirror(Ctx(regs, f), address, m))

SetInterruptOn ==
    /\ phase = "InputConfiguring"
    /\ \E f \in Fails(2), p \in Ports, n \in PinInputs,
          m \in {"PinChange", "ChangeFromRegister"} :
        Called("set_interrupt_on", [NoArgs EXCEPT !.port = p, !.pin = n, !.level = m],
               set_interrupt_on(Ctx(regs, f), address, p, n, m))

SetInterruptCompare ==
    /\ phase = "InputConfiguring"
    /\ \E f \in Fails(3), p \in Ports, n \in PinInputs, v \in PinSets :
        Called("set_interrupt_compare", [NoArgs EXCEPT !.port = p, !.pin = n, !.level = v],
               set_interrupt_compare(Ctx(regs, f), address, p, n, v))

Ready ==
    /\ phase = "InputConfiguring"
    /\ Called("ready", NoArgs, ready(Ctx(regs, 0)))

Read ==
    /\ phase = "InputReady"
    /\ \E f \in Fails(1) :
        Called("read", NoArgs, read(Ctx(regs, f), address))

ReadPin ==
    /\ phase = "InputReady"
    /\ \E f \in Fails(1), p \in Ports, n \in PinInputs :
        Called("read_pin", [NoArgs EXCEPT !.port = p, !.pin = n],
               read_pin(Ctx(regs, f), address, p, n))

DisableInterrupt ==
    /\ phase = "InputReady"
    /\ \E f \in Fails(2), p \in Ports, n \in PinInputs :
        Called("disable_interrupt", [NoArgs EXCEPT !.port = p, !.pin = n],
               disable_interrupt(Ctx(regs, f), address, p, n))

EnableInterrupt ==
    /\ phase = "InputReady"
    /\ \E f \in Fails(2), p \in Ports, n \in PinInputs :
        Called("enable_interrupt", [NoArgs EXCEPT !.port = p, !.pin = n],
               enable_interrupt(Ctx(regs, f), address, p, n))

GetInterruptedPin ==
    /\ phase = "InputReady"
    /\ \E f \in Fails(1), p \in Ports :
        Called("get_interrupted_pin", [NoArgs EXCEPT !.port = p],
               get_interrupted_pin(Ctx(regs, f), address, p))

Next ==
    \/ New
    \/ ReadConfig
    \/ WriteConfig
    \/ SetAsInput
    \/ SetAsOutput
    \/ Write
    \/ WritePin
    \/ SetPull
    \/ SetInterruptMirror
    \/ SetInterruptOn
    \/ SetInterruptCompare
    \/ Ready
    \/ Read
    \/ ReadPin
    \/ DisableInterrupt
    \/ EnableInterrupt
    \/ GetInterruptedPin

Spec == Init /\ [][Next]_vars

----------------------------------------------------------------------------
(* The chip-level input path over every INTF byte *)

Bytes == 0..255

\* the device reports any byte in INTF; the other registers hold 0
InitIntf ==
    /\ phase = "None"
    /\ born = "None"
    /\ address = 0
    /\ \E b \in Bytes :
        regs = [a \in RegAddrs |-> IF a \in {Intf, Intf + 1} THEN b ELSE 0]
    /\ op = [name |-> "none", phase |-> "None", args |-> NoArgs]
    /\ tx = <<>>
    /\ res = "none"
    /\ ret = <<>>
    /\ nops = 0
    /\ again = FALSE
    /\ handle = NoHandle

NextIntf ==
    \/ New
    \/ SetAsInput
    \/ Ready
    \/ GetInterruptedPin

SpecIntf == InitIntf /\ [][NextIntf]_vars

----------------------------------------------------------------------------
(* The free functions of registers.rs and lib.rs, and the register address
   computation, applied to every argument *)

\* PinMask as u8: the eight single-bit masks and Invalid
PinMasks == {1, 2, 4, 8, 16, 32, 64, 128, 0}

\* the record of a function call that touches neither handle nor device; the
\* functions keep nothing between calls, so each is applied once per behaviour
Applied(name, args, value) ==
    /\ op.name = "none"
    /\ op' = [name |-> name, phase |-> phase, args |-> args]
    /\ ret' = value
    /\ tx' = <<>>
    /\ res' = "Ok"
    /\ UNCHANGED <<phase, born, address, regs, nops, again, handle>>

PinNumberToMask ==
    \E p \in PinNumbers :
        Applied("pin_number_to_mask", [NoArgs EXCEPT !.pin = p],
                <<pin_number_to_mask(p)>>)

PinMaskToNumber ==
    \E m \in PinMasks :
        Applied("pin_mask_to_number", [NoArgs EXCEPT !.value = m],
                pin_mask_to_number(m))

BitSet ==
    \E b \in Bytes, p \in PinNumbers :
        Applied("bit_set", [NoArgs EXCEPT !.value = b, !.pin = p], <<bit_set(b, p)>>)

BitClear ==
    \E b \in Bytes, p \in PinNumbers :
        Applied("bit_clear", [NoArgs EXCEPT !.value = b, !.pin = p], <<bit_clear(b, p)>>)

BitRead ==
    \E b \in Bytes, p \in PinNumbers :
        Applied("bit_read", [NoArgs EXCEPT !.value = b, !.pin = p], <<bit_read(b, p)>>)

ConvertSlaveAddress ==
    \E a0 \in SlaveAddressings, a1 \in SlaveAddressings, a2 \in SlaveAddressings :
        Applied("convert_slave_address", [a0 |-> a0, a1 |-> a1, a2 |-> a2],
                <<convert_slave_address(a0, a1, a2)>>)

RegisterAddress ==
    \E g \in Registers, p \in Ports :
        Applied("register_address", [NoArgs EXCEPT !.value = g, !.port = p],
                <<register_address_of(g, p)>>)

NextAlgebra ==
    \/ PinNumberToMask
    \/ PinMaskToNumber
    \/ BitSet
    \/ BitClear
    \/ BitRead
    \/ ConvertSlaveAddress
    \/ RegisterAddress

SpecAlgebra == Init /\ [][NextAlgebra]_vars

----------------------------------------------------------------------------
(* The chip-level handle on a bus it shares with another master: between the
   read and the write of a read-modify-write operation the other master
   toggles one other bit of the register the operation has read *)

\* the other master's write: the byte at register address a with bit q toggled
OtherMasterWrite(r, a, q) ==
    <<a, IF Bit(r[a], q) = 1 THEN r[a] - 2 ^ q ELSE r[a] + 2 ^ q>>

WritePinRaced ==
    /\ phase = "OutputReady"
    /\ \E f \in Fails(2), p \in Ports, n \in PinInputs, v \in PinSets :
      \E q \in PinInputs \ {n} :
        Called("write_pin", [NoArgs EXCEPT !.port = p, !.pin = n, !.level = v, !.value = q],
               write_pin(CtxRaced(regs, f, 1, OtherMasterWrite(regs, Gpio + p, q)),
                         address, p, n, v))

SetInterruptOnRaced ==
    /\ phase = "InputConfiguring"
    /\ \E f \in Fails(2), p \in Ports, n \in PinInputs,
          m \in {"PinChange", "ChangeFromRegister"} :
      \E q \in PinInputs \ {n} :
        Called("set_interrupt_on", [NoArgs EXCEPT !.port = p, !.pin = n, !.level = m, !.value = q],
               set_interrupt_on(CtxRaced(regs, f, 1, OtherMasterWrite(regs, Intcon + p, q)),
                                address, p, n, m))

SetInterruptCompareRaced ==
    /\ phase = "InputConfiguring"
    /\ \E f \in Fails(3), p \in Ports, n \in PinInputs, v \in PinSets :
      \E q \in PinInputs \ {n} :
        Called("set_interrupt_compare",
               [NoArgs EXCEPT !.port = p, !.pin = n, !.level = v, !.value = q],
               set_interrupt_compare(
                   CtxRaced(regs, f, 2, OtherMasterWrite(regs, Defval + p, q)),
                   address, p, n, v))

EnableInterruptRaced ==
    /\ phase = "InputReady"
    /\ \E f \in Fails(2), p \in Ports, n \in PinInputs :
      \E q \in PinInputs \ {n} :
        Called("enable_interrupt", [NoArgs EXCEPT !.port = p, !.pin = n, !.value = q],
               enable_interrupt(CtxRaced(regs, f, 1, OtherMasterWrite(regs, Gpinten + p, q)),
                                address, p, n))

DisableInterruptRaced ==
    /\ phase = "InputReady"
    /\ \E f \in Fails(2), p \in Ports, n \in PinInputs :
      \E q \in PinInputs \ {n} :
        Called("disable_interrupt", [NoArgs EXCEPT !.port = p, !.pin = n, !.value = q],
               disable_interrupt(CtxRaced(regs, f, 1, OtherMasterWrite(regs, Gpinten + p, q)),
                                 address, p, n))

NextRace ==
    \/ New
    \/ SetAsInput
    \/ SetAsOutput
    \/ Ready
    \/ WritePinRaced
    \/ SetInterruptOnRaced
    \/ SetInterruptCompareRaced
    \/ EnableInterruptRaced
    \/ DisableInterruptRaced

SpecRace == Init /\ [][NextRace]_vars

----------------------------------------------------------------------------
(* State machine of the port-level and pin-level handles *)

\* PortA::new / PortB::new, generic over State
PortNew ==
    /\ phase = "None"
    /\ \E a \in AddressInputs, st \in States, p \in Ports :
        /\ phase' = st
        /\ born' = st
        /\ address' = a
        /\ handle' = [kind |-> "port", port |-> p, pin |-> 0]
    /\ op' = [name |-> "new", phase |-> "None", args |-> NoArgs]
    /\ tx' = <<>>
    /\ res' = "Ok"
    /\ ret' = <<>>
    /\ UNCHANGED <<regs, nops, again>>

\* Pina0::new .. Pinb7::new, generic over State
PinNew ==
    /\ phase = "None"
    /\ \E a \in AddressInputs, st \in States, p \in Ports, n \in FacadePins :
        /\ phase' = st
        /\ born' = st
        /\ address' = a
        /\ handle' = [kind |-> "pin", port |-> p, pin |-> n]
    /\ op' = [name |-> "new", phase |-> "None", args |-> NoArgs]
    /\ tx' = <<>>
    /\ res' = "Ok"
    /\ ret' = <<>>
    /\ UNCHANGED <<regs, nops, again>>

PortSetAsInput ==
    /\ handle.kind = "port" /\ phase = "Configuring"
    /\ \E f \in Fails(1) :
        Called("set_as_input", NoArgs,
               portmode_set_as_input(Ctx(regs, f), address, handle.port))

PortSetInterruptMirror ==
    /\ handle.kind = "port" /\ phase = "InputConfiguring"
    /\ \E f \in Fails(2), m \in {"MirrorOn", "MirrorOff"} :
        Called("set_interrupt_mirror", [NoArgs EXCEPT !.level = m],
               portmode_set_interrupt_mirror(Ctx(regs, f), address, handle.port, m))

PinSetAsInput ==
    /\ handle.kind = "pin" /\ phase = "Configuring"
    /\ \E f \in Fails(2) :
        Called("set_as_input", NoArgs,
               pinmode_set_as_input(Ctx(regs, f), address, handle.port, handle.pin))

PinSetInterruptMirror ==
    /\ handle.kind = "pin" /\ phase = "InputConfiguring"
    /\ \E f \in Fails(2), m \in {"MirrorOn", "MirrorOff"} :
        Called("set_interrupt_mirror", [NoArgs EXCEPT !.level = m],
               pinmode_set_interrupt_mirror(Ctx(regs, f), address, handle.port, m))

PortSetAsOutput ==
    /\ handle.kind = "port" /\ phase = "Configuring"
    /\ \E f \in Fails(1) :
        Called("set_as_output", NoArgs,
               portmode_set_as_output(Ctx(regs, f), address, handle.port))

PortWritePin ==
    /\ handle.kind = "port" /\ phase = "OutputReady"
    /\ \E f \in Fails(2), n \in FacadePins, v \in PinSets :
        Called("write_pin", [NoArgs EXCEPT !.pin = n, !.level = v],
               portmode_write_pin(Ctx(regs, f), address, handle.port, n, v))

PinSetAsOutput ==
    /\ handle.kind = "pin" /\ phase = "Configuring"
    /\ \E f \in Fails(2) :
        Called("set_as_output", NoArgs,
               pinmode_set_as_output(Ctx(regs, f), address, handle.port, handle.pin))

PinWrite ==
    /\ handle.kind = "pin" /\ phase = "OutputReady"
    /\ \E f \in Fails(2), v \in PinSets :
        Called("write", [NoArgs EXCEPT !.level = v],
               pinmode_write(Ctx(regs, f), address, handle.port, handle.pin, v))

PortSetPull ==
    /\ handle.kind = "port" /\ phase = "InputConfiguring"
    /\ \E f \in Fails(1), v \in PinSets :
        Called("set_pull", [NoArgs EXCEPT !.level = v],
               portmode_set_pull(Ctx(regs, f), address, handle.port, v))

\* a port or pin handle goes out of scope: the device keeps its registers and
\* another handle can be constructed for it (counted with the operations)
Drop ==
    /\ handle.kind \in {"port", "pin"}
    /\ nops < MaxOps
    /\ phase' = "None"
    /\ handle' = NoHandle
    /\ op' = [name |-> "drop", phase |-> phase, args |-> NoArgs]
    /\ tx' = <<>>
    /\ res' = "Ok"
    /\ ret' = <<>>
    /\ again' = FALSE
    /\ born' = "None"
    /\ address' = 0
    /\ nops' = nops + 1
    /\ UNCHANGED regs

NextModes ==
    \/ PortNew
    \/ PinNew
    \/ PortSetAsInput
    \/ PortSetInterruptMirror
    \/ PinSetAsInput
    \/ PinSetInterruptMirror
    \/ PortSetAsOutput
    \/ PortWritePin
    \/ PinSetAsOutput
    \/ PinWrite
    \/ PortSetPull
    \/ Drop

SpecModes == Init /\ [][NextModes]_vars

----------------------------------------------------------------------------
(* The chip-level operations that write one value to both ports, to be set
   against the port-level operations of a PortA and a PortB handle *)

NextBothPorts ==
    \/ New
    \/ SetAsInput
    \/ SetAsOutput
    \/ SetPull

SpecBothPorts == Init /\ [][NextBothPorts]_vars

----------------------------------------------------------------------------
(* State machine of the per-pin facade of lib.rs: Mcp23017 and the Pin it
   lends out.  address is the Pin's Option<u8>. *)

PinStates == {"NonConfigured", "Output", "InputPullUp", "Input"}

\* Mcp23017::new (feature "bit"): every Pin is built by Pin::new with address None
McpNew ==
    /\ phase = "None"
    /\ phase' = "Created"
    /\ born' = "Created"
    /\ address' = <<>>
    /\ handle' = [kind |-> "mcp", port |-> 0, pin |-> 0]
    /\ op' = [name |-> "new", phase |-> "None", args |-> NoArgs]
    /\ tx' = <<>>
    /\ res' = "Ok"
    /\ ret' = <<>>
    /\ UNCHANGED <<regs, nops, again>>

\* Mcp23017::set_address: Pin::set_address on each of the 16 pins
McpSetAddress ==
    /\ phase = "Created"
    /\ address = <<>>
    /\ \E a \in AddressInputs : address' = <<a>>
    /\ op' = [name |-> "set_address", phase |-> phase, args |-> NoArgs]
    /\ tx' = <<>>
    /\ res' = "Ok"
    /\ ret' = <<>>
    /\ UNCHANGED <<phase, born, regs, nops, again, handle>>

\* Mcp23017::split(pin, port): the Pin<NonConfigured> of that port and pin
Split ==
    /\ phase = "Created"
    /\ \E p \in Ports, n \in PinInputs :
        handle' = [kind |-> "libpin", port |-> p, pin |-> n]
    /\ phase' = "NonConfigured"
    /\ born' = "NonConfigured"
    /\ op' = [name |-> "split", phase |-> phase, args |-> NoArgs]
    /\ tx' = <<>>
    /\ res' = "Ok"
    /\ ret' = <<>>
    /\ UNCHANGED <<address, regs, nops, again>>

FindMe ==
    /\ phase = "Created"
    /\ \E f \in Fails(3), a \in AddressInputs :
        Called("find_me", [NoArgs EXCEPT !.value = a], find_me(Ctx(regs, f), a, phase))

OperationWrite ==
    /\ phase \in PinStates
    /\ \E f \in Fails(1), g \in DirectRegisters, v \in DirectValues :
        LET w == Operation_write(Ctx(regs, f), address, BitOr(g, handle.port), v)
        IN  Called("Operation::write", [NoArgs EXCEPT !.port = handle.port, !.value = g],
                   Ret(w.c, w.res, <<>>, phase))

OperationRead ==
    /\ phase \in PinStates
    /\ \E f \in Fails(1), g \in DirectRegisters :
        LET r == Operation_read(Ctx(regs, f), address, BitOr(g, handle.port))
        IN  Called("Operation::read", [NoArgs EXCEPT !.port = handle.port, !.value = g],
                   Ret(r.c, r.res, IF r.res = "Ok" THEN r.c.rx ELSE <<>>, phase))

SetPinOutput ==
    /\ phase = "NonConfigured"
    /\ \E f \in Fails(2) :
        Called("set_pin_output", NoArgs,
               set_pin_output(Ctx(regs, f), address, handle.port,
                              PinNumberAsMask(handle.pin)))

SetPinInputPullup ==
    /\ phase = "NonConfigured"
    /\ \E f \in Fails(4) :
        Called("set_pin_input_pullup", NoArgs,
               set_pin_input_pullup(Ctx(regs, f), address, handle.port,
                                    PinNumberAsMask(handle.pin)))

SetPinInput ==
    /\ phase = "NonConfigured"
    /\ \E f \in Fails(2) :
        Called("set_pin_input", NoArgs,
               set_pin_input(Ctx(regs, f), address, handle.port,
                             PinNumberAsMask(handle.pin)))

High ==
    /\ phase = "Output"
    /\ \E f \in Fails(2) :
        Called("high", NoArgs,
               high(Ctx(regs, f), address, handle.port, PinNumberAsMask(handle.pin)))

Low ==
    /\ phase = "Output"
    /\ \E f \in Fails(2) :
        Called("low", NoArgs,
               low(Ctx(regs, f), address, handle.port, PinNumberAsMask(handle.pin)))

NextPins ==
    \/ McpNew
    \/ McpSetAddress
    \/ Split
    \/ FindMe
    \/ OperationWrite
    \/ OperationRead
    \/ SetPinOutput
    \/ SetPinInputPullup
    \/ SetPinInput
    \/ High
    \/ Low

SpecPins == Init /\ [][NextPins]_vars

----------------------------------------------------------------------------
(* Vocabulary of the properties *)

\* the register a transaction addresses, with the port bit stripped
TxRegister(t) == t.bytes[1] - (t.bytes[1] % 2)

\* the phase a write to register g is permitted from
WriterPhase(g) ==
    CASE g = Iodir -> "Configuring"
      [] g = Gpio -> "OutputReady"
      [] g \in {Gppu, Iocon, Intcon, Defval} -> "InputConfiguring"
      [] g = Gpinten -> "InputReady"
      [] OTHER -> "nowhere"

\* the register a read-modify-write operation works on
RmwRegister(name) ==
    CASE name = "write_pin" -> Gpio
      [] name = "set_interrupt_on" -> Intcon
      [] name = "set_interrupt_compare" -> Defval
      [] name \in {"enable_interrupt", "disable_interrupt"} -> Gpinten

\* the most transactions an operation may issue
MaxTransactions(name) ==
    CASE name = "ready" -> 0
      [] name \in {"write", "read", "read_pin", "get_interrupted_pin"} -> 1
      [] name \in {"set_as_input", "set_as_output", "set_pull", "write_pin",
                   "set_interrupt_on", "enable_interrupt", "disable_interrupt"} -> 2
      [] name = "set_interrupt_compare" -> 3
      [] name = "set_interrupt_mirror" -> 4

\* the port-level operation of the given name on a handle of the given port
PortLevel(name, c, addr, port, level) ==
    CASE name = "set_as_input" -> portmode_set_as_input(c, addr, port)
      [] name = "set_as_output" -> portmode_set_as_output(c, addr, port)
      [] name = "set_pull" -> portmode_set_pull(c, addr, port, level)

----------------------------------------------------------------------------
C1_PhaseTransitions_Step ==
        phase \in States =>
          /\ phase' # "Configuring" \/ phase = "Configuring"
          /\ phase \in {"OutputReady", "InputReady"} => phase' = phase
          /\ \/ phase' = phase
             \/ /\ phase = "Configuring" /\ phase' = "InputConfiguring"
                /\ op'.name = "set_as_input" /\ res' = "Ok"
             \/ /\ phase = "Configuring" /\ phase' = "OutputReady"
                /\ op'.name = "set_as_output" /\ res' = "Ok"
             \/ /\ phase = "InputConfiguring" /\ phase' = "InputReady"
                /\ op'.name = "ready"
             \/ /\ phase \in {"Configuring", "InputConfiguring"}
                /\ phase' = "Consumed" /\ res' # "Ok"

(* C1: a handle's phase changes only Configuring -> InputConfiguring by a
   successful set_as_input, Configuring -> OutputReady by a successful
   set_as_output, and InputConfiguring -> InputReady by ready; no operation
   moves a handle out of OutputReady or InputReady (it is not even consumed),
   none returns it to Configuring, every other call leaves the phase as it
   was or, failing on a by-value receiver, ends the handle. *)
C1_PhaseTransitions == [][C1_PhaseTransitions_Step]_vars

C1_Witness ==
    /\ born = "Configuring" /\ phase = "InputReady"
    /\ op.name = "enable_interrupt" /\ res = "Ok" /\ nops = 3

(* C2: new yields only Configuring handles, so a handle in InputConfiguring,
   OutputReady or InputReady was constructed in Configuring and got there
   through set_as_input / set_as_output (and ready). *)
C2_OnlyConfiguringConstructed ==
    /\ op.name = "new" => phase = "Configuring"
    /\ phase \in States => born = "Configuring"

(* C3: every write transaction an operation issues addresses a register its
   calling phase may write: IODIR from Configuring, GPIO from OutputReady,
   GPPU / IOCON / INTCON / DEFVAL from InputConfiguring, GPINTEN from
   InputReady. *)
C3_WritesMatchPhase ==
    \A i \in 1..Len(tx) :
        tx[i].kind = "write" => op.phase = WriterPhase(TxRegister(tx[i]))

(* C4: set_as_input issues only writes, [IODIR|A, 0xFF] then [IODIR|B, 0xFF],
   the second whenever the first went through; with both through it returns an
   InputConfiguring handle.  set_as_output: the same with 0x00, OutputReady. *)
C4_SetAsWrites ==
    op.name \in {"set_as_input", "set_as_output"} =>
        LET v == IF op.name = "set_as_input" THEN 255 ELSE 0
            next == IF op.name = "set_as_input" THEN "InputConfiguring" ELSE "OutputReady"
            wa == [kind |-> "write", address |-> address, bytes |-> <<0, v>>,
                   rx |-> <<>>, ok |-> TRUE]
            wb == [kind |-> "write", address |-> address, bytes |-> <<1, v>>,
                   rx |-> <<>>, ok |-> TRUE]
        IN  /\ op.phase = "Configuring"
            /\ \/ tx = <<[wa EXCEPT !.ok = FALSE]>> /\ res = "CommunicationErr"
               \/ tx = <<wa, [wb EXCEPT !.ok = FALSE]>> /\ res = "CommunicationErr"
               \/ tx = <<wa, wb>> /\ res = "Ok"
            /\ res = "Ok" <=> phase = next

C4_Witness ==
    /\ born = "Configuring"
    /\ op.name = "set_as_input" /\ res = "Ok" /\ phase = "InputConfiguring"
    /\ Len(tx) = 2 /\ regs[Iodir] = 255 /\ regs[Iodir + 1] = 255

(* C5: in every fallible operation other than get_interrupted_pin a failed
   transaction is the last one the operation issues (no retry, no remaining
   step) and the operation returns CommunicationErr. *)
C5_FailureAborts ==
    op.name \notin {"none", "new", "ready", "get_interrupted_pin"} =>
        \A i \in 1..Len(tx) :
            ~tx[i].ok => i = Len(tx) /\ res = "CommunicationErr"

C5_Witness ==
    /\ born = "Configuring"
    /\ op.name = "write_pin" /\ Len(tx) = 1 /\ ~tx[1].ok /\ res = "CommunicationErr"

C6_ErrorConsumes_Step ==
        /\ ( /\ op'.name \in {"set_as_input", "set_as_output", "set_pull",
                              "set_interrupt_mirror", "set_interrupt_on",
                              "set_interrupt_compare"}
             /\ res' # "Ok" ) => phase' = "Consumed"
        /\ phase # "Consumed"

(* C6: a failed set_as_input / set_as_output, and an InputConfiguring builder
   operation that returns an error, consume the handle: no successor handle
   exists, and nothing is ever called or sent through a consumed handle. *)
C6_ErrorConsumes == [][C6_ErrorConsumes_Step]_vars

C6_Witness ==
    /\ born = "Configuring"
    /\ op.name = "set_interrupt_compare" /\ res = "InvalidInterruptSetting"
    /\ phase = "Consumed" /\ nops < MaxOps

(* C7: write(value) sends the low byte of value first (Port A) and the high
   byte second (Port B). *)
C7_WriteLowByteFirst ==
    (op.name = "write" /\ born = "Configuring") =>
        /\ Len(tx) = 1
        /\ tx[1].bytes[2] = op.args.value % 256
        /\ tx[1].bytes[3] = op.args.value \div 256
        /\ res = "Ok" => /\ regs[Gpio] = op.args.value % 256
                         /\ regs[Gpio + 1] = op.args.value \div 256

(* C8: write(value) issues exactly one transaction, the write
   [0x12, value >> 8, value & 0xFF], no read, no port bit in the register
   address; it returns CommunicationErr when that write fails. *)
C8_WriteTransaction ==
    op.name = "write" =>
        /\ Len(tx) = 1
        /\ tx[1].kind = "write"
        /\ tx[1].address = address
        /\ tx[1].bytes = <<18, op.args.value \div 256, op.args.value % 256>>
        /\ res = (IF tx[1].ok THEN "Ok" ELSE "CommunicationErr")

C8_Witness ==
    /\ born = "Configuring"
    /\ op.name = "write" /\ op.args.value = 8721 /\ res = "Ok"
    /\ tx[1].bytes = <<18, 34, 17>>

(* C9: write_pin(port, pin, value) reads GPIO|port, changes only the bit of
   pin and writes the result back to GPIO|port; the other port's GPIO register
   is never written. *)
C9_WritePinSamePort ==
    (op.name = "write_pin" /\ born = "Configuring") =>
        /\ tx[1].kind = "write_read" /\ tx[1].bytes = <<18 + op.args.port>>
        /\ Len(tx) = 2 =>
            /\ tx[2].kind = "write"
            /\ tx[2].bytes[1] = 18 + op.args.port
            /\ \A b \in 0..7 :
                Bit(tx[2].bytes[2], b) =
                    IF b = op.args.pin
                    THEN (IF op.args.level = "High" THEN 1 ELSE 0)
                    ELSE Bit(tx[1].rx[1], b)
        /\ \A i \in 1..Len(tx) :
            tx[i].kind = "write" => tx[i].bytes[1] # 18 + (1 - op.args.port)

C10_CompareRejected_Step ==
        ( /\ op'.name = "set_interrupt_compare"
          /\ tx'[1].ok
          /\ Bit(tx'[1].rx[1], op'.args.pin) = 0 )
        => /\ res' = "InvalidInterruptSetting"
           /\ Len(tx') = 1
           /\ tx'[1].kind = "write_read"
           /\ tx'[1].bytes = <<8 + op'.args.port>>
           /\ regs' = regs

(* C10: set_interrupt_compare whose INTCON read shows the pin's bit as 0
   returns InvalidInterruptSetting after that one read: no write is issued
   and the device registers, DEFVAL among them, are as before. *)
C10_CompareRejected == [][C10_CompareRejected_Step]_vars

C10_Witness ==
    /\ op.name = "set_interrupt_compare" /\ res = "InvalidInterruptSetting"
    /\ born = "Configuring" /\ op.args.pin = 7 /\ op.args.port = 1

(* C11: every DEFVAL write of set_interrupt_compare comes, within the call,
   after a successful read of INTCON of the same port that showed the pin's bit
   as 1; a successful call is exactly read INTCON|port, read DEFVAL|port, write
   DEFVAL|port, the byte written being the DEFVAL byte read with only the
   pin's bit changed. *)
C11_ValidateThenWrite ==
    op.name = "set_interrupt_compare" =>
        /\ \A i \in 1..Len(tx) :
            tx[i].kind = "write" =>
                /\ tx[i].bytes[1] = 6 + op.args.port
                /\ \E j \in 1..(i - 1) :
                    /\ tx[j].kind = "write_read" /\ tx[j].ok
                    /\ tx[j].bytes = <<8 + op.args.port>>
                    /\ Bit(tx[j].rx[1], op.args.pin) = 1
        /\ res = "Ok" =>
            /\ Len(tx) = 3
            /\ \A i \in 1..3 : tx[i].ok /\ tx[i].address = address
            /\ tx[1].kind = "write_read" /\ tx[1].bytes = <<8 + op.args.port>>
            /\ tx[2].kind = "write_read" /\ tx[2].bytes = <<6 + op.args.port>>
            /\ tx[3].kind = "write" /\ Len(tx[3].bytes) = 2
            /\ tx[3].bytes[1] = 6 + op.args.port
            /\ \A b \in 0..7 :
                Bit(tx[3].bytes[2], b) =
                    IF b = op.args.pin
                    THEN (IF op.args.level = "High" THEN 1 ELSE 0)
                    ELSE Bit(tx[2].rx[1], b)

C11_Witness ==
    /\ born = "Configuring"
    /\ op.name = "set_interrupt_compare" /\ res = "Ok"
    /\ op.args.level = "Low" /\ op.args.pin = 0 /\ op.args.port = 0
    /\ tx[2].rx = <<173>> /\ tx[3].bytes = <<6, 172>>

(* C12: set_interrupt_on(port, pin, mode), called in InputConfiguring, reads
   INTCON|port and writes back to INTCON|port the byte read with the pin's bit
   cleared for PinChange, set for ChangeFromRegister and every other bit as
   read; no transaction of the call addresses a register of the other port. *)
C12_InterruptOnRMW ==
    op.name = "set_interrupt_on" =>
        /\ op.phase = "InputConfiguring"
        /\ Len(tx) \in {1, 2}
        /\ tx[1].kind = "write_read" /\ tx[1].bytes = <<8 + op.args.port>>
        /\ tx[1].ok <=> Len(tx) = 2
        /\ Len(tx) = 2 =>
            /\ tx[2].kind = "write" /\ Len(tx[2].bytes) = 2
            /\ tx[2].bytes[1] = 8 + op.args.port
            /\ \A b \in 0..7 :
                Bit(tx[2].bytes[2], b) =
                    IF b = op.args.pin
                    THEN (IF op.args.level = "PinChange" THEN 0 ELSE 1)
                    ELSE Bit(tx[1].rx[1], b)
        /\ \A i \in 1..Len(tx) : tx[i].bytes[1] % 2 = op.args.port
        /\ res = "Ok" <=> (Len(tx) = 2 /\ tx[2].ok)

C12_Witness ==
    /\ born = "Configuring"
    /\ op.name = "set_interrupt_on" /\ res = "Ok"
    /\ op.args.level = "ChangeFromRegister" /\ op.args.pin = 0 /\ op.args.port = 1
    /\ tx[1].rx = <<222>> /\ tx[2].bytes = <<9, 223>>
    /\ regs[Intcon] = 173 /\ regs[Intcon + 1] = 223

(* C13: chip-level set_interrupt_mirror issues, in this order, read IOCON|A,
   read IOCON|B, write IOCON|A, write IOCON|B, stopping only at a failed
   transaction; the byte written to a port is the byte read from that port
   with bit 6 set for MirrorOn, cleared for MirrorOff, and every other bit as
   read (0xFF gives 0xBF for MirrorOff); the Port B write is issued whenever
   the Port A write went through. *)
C13_MirrorSequence ==
    (op.name = "set_interrupt_mirror" /\ handle.kind = "chip") =>
        LET want == <<[kind |-> "write_read", reg |-> 10],
                      [kind |-> "write_read", reg |-> 11],
                      [kind |-> "write", reg |-> 10],
                      [kind |-> "write", reg |-> 11]>>
            m == IF op.args.level = "MirrorOn" THEN 1 ELSE 0
        IN  /\ Len(tx) \in 1..4
            /\ \A i \in 1..Len(tx) :
                /\ tx[i].kind = want[i].kind
                /\ tx[i].bytes[1] = want[i].reg
                /\ tx[i].address = address
                /\ i < Len(tx) => tx[i].ok
            /\ Len(tx) < 4 => ~tx[Len(tx)].ok
            /\ \A i \in 3..Len(tx) :
                /\ Len(tx[i].bytes) = 2
                /\ \A b \in 0..7 :
                    Bit(tx[i].bytes[2], b) = IF b = 6 THEN m ELSE Bit(tx[i - 2].rx[1], b)
            /\ (Len(tx) >= 3 /\ tx[3].ok) => Len(tx) = 4
            /\ res = "Ok" <=> (Len(tx) = 4 /\ tx[4].ok)

C13_Witness ==
    /\ born = "Configuring"
    /\ op.name = "set_interrupt_mirror" /\ op.args.level = "MirrorOff" /\ res = "Ok"
    /\ tx[1].rx = <<255>> /\ tx[2].rx = <<255>>
    /\ tx[3].bytes = <<10, 191>> /\ tx[4].bytes = <<11, 191>>

(* C14: an operation that changes the IOCON mirror bit writes both IOCON
   offsets together, whichever facade the handle belongs to (chip, port or
   pin): a set_interrupt_mirror call that got a write to one port's IOCON
   through also issued the write to the other port's IOCON. *)
C14_MirrorWritesBothPorts ==
    (op.name = "set_interrupt_mirror" /\ born = "Configuring") =>
        \A i \in 1..Len(tx) :
            (tx[i].kind = "write" /\ tx[i].ok) =>
                \E j \in 1..Len(tx) :
                    /\ tx[j].kind = "write"
                    /\ TxRegister(tx[j]) = Iocon
                    /\ tx[j].bytes[1] % 2 = 1 - (tx[i].bytes[1] % 2)

(* C15: set_pull(pull), called in InputConfiguring, issues writes only:
   [GPPU|A, v] then [GPPU|B, v] with v = 0xFF for High and 0x00 for Low, two
   of them unless the first fails; with both through it returns Ok and the
   handle is still in InputConfiguring, and it fails exactly when one of the
   two writes fails. *)
C15_SetPullWrites ==
    op.name = "set_pull" =>
        LET v == IF op.args.level = "High" THEN 255 ELSE 0
            wa == [kind |-> "write", address |-> address, bytes |-> <<12, v>>,
                   rx |-> <<>>, ok |-> TRUE]
            wb == [kind |-> "write", address |-> address, bytes |-> <<13, v>>,
                   rx |-> <<>>, ok |-> TRUE]
        IN  /\ op.phase = "InputConfiguring"
            /\ \/ tx = <<[wa EXCEPT !.ok = FALSE]>> /\ res = "CommunicationErr"
               \/ tx = <<wa, [wb EXCEPT !.ok = FALSE]>> /\ res = "CommunicationErr"
               \/ tx = <<wa, wb>> /\ res = "Ok"
            /\ res = "Ok" <=> phase = "InputConfiguring"
            /\ res = "Ok" => regs[Gppu] = v /\ regs[Gppu + 1] = v

C15_Witness ==
    /\ born = "Configuring"
    /\ op.name = "set_pull" /\ op.args.level = "High" /\ res = "Ok"
    /\ phase = "InputConfiguring"
    /\ Len(tx) = 2 /\ tx[1].bytes = <<12, 255>> /\ tx[2].bytes = <<13, 255>>

C16_SetPullIdempotent_Step ==
        ( /\ op.name = "set_pull" /\ res = "Ok"
          /\ op'.name = "set_pull" /\ res' = "Ok"
          /\ op'.args.level = op.args.level )
        => /\ Len(tx') = 2
           /\ tx' = tx
           /\ regs' = regs
           /\ phase' = phase /\ address' = address

(* C16: set_pull is idempotent: a successful set_pull(Low) followed by a
   second successful set_pull(Low) (likewise High) issues the same pair of
   GPPU write transactions, same payload, as the first, and leaves the device
   registers and the handle exactly as they were after the first call. *)
C16_SetPullIdempotent == [][C16_SetPullIdempotent_Step]_vars

C16_Witness ==
    /\ born = "Configuring"
    /\ op.name = "set_pull" /\ op.args.level = "Low" /\ res = "Ok" /\ again
    /\ nops = 3
    /\ tx[1].bytes = <<12, 0>> /\ tx[2].bytes = <<13, 0>>
    /\ regs[Gppu] = 0 /\ regs[Gppu + 1] = 0

C17_ReadyNoIO_Step ==
        op'.name = "ready" =>
            /\ tx' = <<>>
            /\ res' = "Ok"
            /\ phase = "InputConfiguring" /\ phase' = "InputReady"
            /\ address' = address
            /\ regs' = regs
            /\ born' = born /\ handle' = handle

(* C17: ready() issues no transaction; it changes the phase from
   InputConfiguring to InputReady and nothing else (bus address, handle and
   the device behind the transport are as before), and it always succeeds. *)
C17_ReadyNoIO == [][C17_ReadyNoIO_Step]_vars

C17_Witness ==
    /\ born = "Configuring"
    /\ op.name = "ready" /\ op.phase = "InputConfiguring" /\ phase = "InputReady"
    /\ tx = <<>> /\ address = 64 /\ res = "Ok"

(* C18: read() issues exactly one transaction, a write_read of [0x12] for two
   bytes, and returns first byte + 256 * second byte (Port A low, Port B
   high: 0xAD, 0xDE give 0xDEAD); when the transaction fails it returns
   CommunicationErr. *)
C18_ReadLittleEndian ==
    op.name = "read" =>
        /\ op.phase = "InputReady"
        /\ Len(tx) = 1
        /\ tx[1].kind = "write_read" /\ tx[1].address = address
        /\ tx[1].bytes = <<18>> /\ Len(tx[1].rx) = 2
        /\ tx[1].ok =>
            /\ res = "Ok"
            /\ ret = <<tx[1].rx[1] + 256 * tx[1].rx[2]>>
            /\ tx[1].rx = <<regs[Gpio], regs[Gpio + 1]>>
        /\ ~tx[1].ok => res = "CommunicationErr" /\ ret = <<>>

C18_Witness ==
    /\ born = "Configuring"
    /\ op.name = "read" /\ res = "Ok"
    /\ tx[1].rx = <<173, 222>> /\ ret = <<57005>>

C19_ReadsOnly_Step ==
        op'.name \in {"read", "read_pin", "get_interrupted_pin"} =>
            /\ Len(tx') = 1
            /\ tx'[1].kind = "write_read"
            /\ regs' = regs
            /\ phase' = phase
            /\ op'.name = "read_pin" =>
                /\ tx'[1].bytes = <<18 + op'.args.port>>
                /\ Len(tx'[1].rx) = 1
                /\ tx'[1].ok =>
                    /\ res' = "Ok"
                    /\ tx'[1].rx = <<regs[Gpio + op'.args.port]>>
                    /\ ret' = <<Bit(tx'[1].rx[1], op'.args.pin)>>
                    /\ ret'[1] \in {0, 1}

(* C19: read, read_pin and get_interrupted_pin each issue exactly one
   write_read transaction and no write, and leave the device registers as
   they were; read_pin(port, pin) addresses GPIO|port and returns the bit of
   pin in the byte read, as 0 or 1. *)
C19_ReadsOnly == [][C19_ReadsOnly_Step]_vars

C19_Witness ==
    /\ born = "Configuring"
    /\ op.name = "read_pin" /\ op.args.port = 0 /\ op.args.pin = 7 /\ res = "Ok"
    /\ tx[1].bytes = <<18>> /\ tx[1].rx = <<173>> /\ ret = <<1>>

(* C20: enable_interrupt(port, pin) / disable_interrupt(port, pin), called in
   InputReady, read GPINTEN|port and write back to GPINTEN|port the byte read
   with the pin's bit set (enable) or cleared (disable) and every other bit
   as read; a failed write returns CommunicationErr. *)
C20_GpintenRMW ==
    op.name \in {"enable_interrupt", "disable_interrupt"} =>
        /\ op.phase = "InputReady" /\ phase = "InputReady"
        /\ Len(tx) \in {1, 2}
        /\ tx[1].kind = "write_read" /\ tx[1].bytes = <<4 + op.args.port>>
        /\ tx[1].ok <=> Len(tx) = 2
        /\ Len(tx) = 2 =>
            /\ tx[2].kind = "write" /\ Len(tx[2].bytes) = 2
            /\ tx[2].bytes[1] = 4 + op.args.port
            /\ \A b \in 0..7 :
                Bit(tx[2].bytes[2], b) =
                    IF b = op.args.pin
                    THEN (IF op.name = "enable_interrupt" THEN 1 ELSE 0)
                    ELSE Bit(tx[1].rx[1], b)
            /\ ~tx[2].ok => res = "CommunicationErr"
            /\ tx[2].ok => res = "Ok" /\ regs[Gpinten + op.args.port] = tx[2].bytes[2]
        /\ ~tx[1].ok => res = "CommunicationErr"

C20_Witness ==
    /\ born = "Configuring"
    /\ op.name = "enable_interrupt" /\ op.args.port = 1 /\ op.args.pin = 0
    /\ res = "Ok"
    /\ tx[1].rx = <<222>> /\ tx[2].bytes = <<5, 223>>
    /\ regs[Gpinten] = 173 /\ regs[Gpinten + 1] = 223

C21_EnableAfterReady_Step ==
        ( /\ op.name = "ready"
          /\ op'.name = "enable_interrupt"
          /\ \A i \in 1..Len(tx') : tx'[i].ok )
        => /\ res' = "Ok"
           /\ Bit(regs'[Gpinten + op'.args.port], op'.args.pin) = 1
           /\ \A i \in 1..Len(tx') : TxRegister(tx'[i]) = Gpinten
           /\ \A a \in {Intcon, Intcon + 1, Defval, Defval + 1} : regs'[a] = regs[a]

(* C21: no interrupt-configuration order is enforced: right after ready
   (which follows set_as_input) enable_interrupt can be called, and with
   the transport answering it succeeds and sets the pin's GPINTEN bit
   without any INTCON or DEFVAL access, whatever those registers hold. *)
C21_EnableAfterReady ==
    /\ []((op.name = "ready" /\ nops < MaxOps) => ENABLED EnableInterrupt)
    /\ [][C21_EnableAfterReady_Step]_vars

C21_Witness ==
    /\ born = "Configuring" /\ nops = 3
    /\ op.name = "enable_interrupt" /\ op.phase = "InputReady" /\ res = "Ok"
    /\ op.args.port = 0 /\ op.args.pin = 0
    /\ tx[1].rx = <<0>> /\ regs[Gpinten] = 1
    /\ regs[Intcon] = 0 /\ regs[Defval] = 0

(* C22: get_interrupted_pin(port) never returns an error: it returns Some or
   None, and None when the INTF read fails at the transport, which is also
   what it returns when INTF reads as 0 (no pending interrupt); the handle
   stays in InputReady. *)
C22_InterruptedPinNoError ==
    op.name = "get_interrupted_pin" =>
        /\ res \in {"Some", "None"}
        /\ phase = "InputReady"
        /\ Len(tx) = 1
        /\ ~tx[1].ok => res = "None" /\ ret = <<>>
        /\ (tx[1].ok /\ tx[1].rx = <<0>>) => res = "None" /\ ret = <<>>

C22_Witness ==
    /\ born = "Configuring"
    /\ op.name = "get_interrupted_pin" /\ ~tx[1].ok
    /\ res = "None" /\ ret = <<>> /\ phase = "InputReady"

(* C23: get_interrupted_pin(port) reads INTF|port once and, for every byte b
   read, returns Some(p) exactly when b = 1 << p (0x80 gives Pin7) and None
   for every other byte: it never reports a pin whose INTF bit is clear, and
   it returns None when two or more INTF bits are set. *)
C23_InterruptedPinExact ==
    op.name = "get_interrupted_pin" =>
        /\ Len(tx) = 1
        /\ tx[1].kind = "write_read" /\ tx[1].bytes = <<14 + op.args.port>>
        /\ tx[1].ok =>
            LET b == tx[1].rx[1]
            IN  /\ \A p \in PinNumbers : (ret = <<p>>) <=> (b = 2 ^ p)
                /\ (ret = <<>>) <=> (\A p \in PinNumbers : b # 2 ^ p)
                /\ (res = "Some") <=> (ret # <<>>)
                /\ \A p \in PinNumbers : ret = <<p>> => Bit(b, p) = 1
                /\ Cardinality({p \in PinNumbers : Bit(b, p) = 1}) >= 2 => ret = <<>>

C23_Witness ==
    /\ born = "Configuring"
    /\ op.name = "get_interrupted_pin" /\ tx[1].ok
    /\ tx[1].rx = <<128>> /\ res = "Some" /\ ret = <<7>>

(* C24: pin number and pin mask are inverse to each other on the eight pins:
   pin_number_to_mask(p) is the single bit 1 << p,
   pin_mask_to_number(pin_number_to_mask(p)) is Some(p), a mask that
   pin_mask_to_number maps to Some(p) is the mask of p, and distinct pins
   have distinct masks. *)
C24_PinMaskInverse ==
    /\ op.name = "pin_number_to_mask" =>
        /\ ret = <<2 ^ op.args.pin>>
        /\ pin_mask_to_number(ret[1]) = <<op.args.pin>>
        /\ \A q \in PinNumbers \ {op.args.pin} : pin_number_to_mask(q) # ret[1]
    /\ op.name = "pin_mask_to_number" =>
        /\ ret = <<>> <=> op.args.value = 0
        /\ ret # <<>> => /\ ret[1] \in PinNumbers
                         /\ pin_number_to_mask(ret[1]) = op.args.value

C24_Witness ==
    /\ op.name = "pin_number_to_mask" /\ op.args.pin = 5 /\ ret = <<32>>
    /\ pin_mask_to_number(32) = <<5>>

(* C25: for every pin p and byte b, bit_read(bit_set(b, p), p) = 1,
   bit_read(bit_clear(b, p), p) = 0, bit_read returns 0 or 1 (the bit of p),
   and bit_set / bit_clear leave every bit other than p as it is in b. *)
C25_BitAlgebra ==
    /\ op.name = "bit_set" =>
        /\ ret[1] \in Bytes
        /\ bit_read(ret[1], op.args.pin) = 1
        /\ \A q \in PinNumbers \ {op.args.pin} : Bit(ret[1], q) = Bit(op.args.value, q)
    /\ op.name = "bit_clear" =>
        /\ ret[1] \in Bytes
        /\ bit_read(ret[1], op.args.pin) = 0
        /\ \A q \in PinNumbers \ {op.args.pin} : Bit(ret[1], q) = Bit(op.args.value, q)
    /\ op.name = "bit_read" =>
        /\ ret[1] \in {0, 1}
        /\ ret[1] = Bit(op.args.value, op.args.pin)

C25_Witness ==
    /\ op.name = "bit_set" /\ op.args.value = 165 /\ op.args.pin = 3
    /\ ret = <<173>> /\ bit_read(173, 3) = 1 /\ bit_clear(173, 3) = 165

(* C26: convert_slave_address(a0, a1, a2) is 0x20 + 4*a0 + 2*a1 + a2 with
   Low = 0 and High = 1: the eight strap combinations give 0x20 .. 0x27,
   (Low, Low, Low) gives 0x20 and (High, High, High) 0x27, and the result
   grows strictly with the 3-bit pattern a0 a1 a2 (so it is injective). *)
C26_SlaveAddress ==
    op.name = "convert_slave_address" =>
        LET n(a) == IF a = "High" THEN 1 ELSE 0
            pattern(a0, a1, a2) == 4 * n(a0) + 2 * n(a1) + n(a2)
            mine == pattern(op.args.a0, op.args.a1, op.args.a2)
        IN  /\ ret = <<32 + mine>>
            /\ ret[1] \in 32..39
            /\ \A b0 \in SlaveAddressings, b1 \in SlaveAddressings,
                  b2 \in SlaveAddressings :
                    pattern(b0, b1, b2) < mine
                        => convert_slave_address(b0, b1, b2) < ret[1]

C26_Witness ==
    /\ op.name = "convert_slave_address"
    /\ op.args = [a0 |-> "High", a1 |-> "Low", a2 |-> "High"]
    /\ ret = <<37>>

(* C27: the register address sent on the bus is register | port: for each of
   the 11 registers the Port A address is the (even) register offset and the
   Port B address is that offset | 1 = offset + 1, and no two of the 22
   (register, port) pairs share an address. *)
C27_RegisterAddress ==
    op.name = "register_address" =>
        /\ op.args.value % 2 = 0
        /\ op.args.port \in {0, 1}
        /\ ret = <<op.args.value + op.args.port>>
        /\ \A g \in Registers, p \in Ports :
            register_address_of(g, p) = ret[1] => g = op.args.value /\ p = op.args.port
        /\ ret[1] \in RegAddrs

C27_Witness ==
    /\ op.name = "register_address" /\ op.args.value = Olat /\ op.args.port = Portb
    /\ ret = <<21>>

(* C28: the read-modify-write operations (write_pin, set_interrupt_on,
   set_interrupt_compare, enable_interrupt, disable_interrupt) are not atomic:
   when another bus master changes another bit of the register between the
   operation's read and its write, the operation reports no error and its
   write puts that bit back to the value the driver read: in the register the
   operation read, the bit ends as read and the other master's change is
   lost. *)
C28_LostUpdate ==
    ( /\ op.name \in {"write_pin", "set_interrupt_on", "set_interrupt_compare",
                       "enable_interrupt", "disable_interrupt"}
      /\ born = "Configuring"
      /\ tx[Len(tx)].kind = "write" /\ tx[Len(tx)].ok )
    => LET a == RmwRegister(op.name) + op.args.port
           rd == tx[Len(tx) - 1]
       IN  /\ res = "Ok"
           /\ rd.kind = "write_read" /\ rd.bytes = <<a>>
           /\ Bit(tx[Len(tx)].bytes[2], op.args.value) = Bit(rd.rx[1], op.args.value)
           /\ Bit(regs[a], op.args.value) = Bit(rd.rx[1], op.args.value)

C29_AddressInvariant_Step ==
        phase \in States => address' = address

(* C29: the bus address given to new stays the handle's address for its whole
   life, through every phase transition and builder operation, and every
   transaction issued, in any phase, is addressed to exactly that address. *)
C29_AddressInvariant ==
    /\ [](op.name = "new" => address \in AddressInputs)
    /\ [](\A i \in 1..Len(tx) : tx[i].address = address)
    /\ [][C29_AddressInvariant_Step]_vars

C29_Witness ==
    /\ born = "Configuring" /\ phase = "InputReady" /\ nops = 3
    /\ op.name = "disable_interrupt" /\ res = "Ok"
    /\ address = 64 /\ Len(tx) = 2 /\ tx[1].address = 64 /\ tx[2].address = 64

(* C30: pin-level write(value) and port-level write_pin(pin, value) read
   GPIO | own port and write the result back to the same address GPIO | own
   port, on Port A and on Port B alike, with only the handle's / the given
   pin's bit changed: with 0xFF read, High writes 0xFF and Low on Pin3 writes
   0b11110111. *)
C30_FacadeWriteSamePort ==
    ( /\ handle.kind \in {"port", "pin"}
      /\ op.name = (IF handle.kind = "pin" THEN "write" ELSE "write_pin") ) =>
        LET n == IF handle.kind = "pin" THEN handle.pin ELSE op.args.pin
            a == 18 + handle.port
        IN  /\ Len(tx) \in {1, 2}
            /\ tx[1].kind = "write_read" /\ tx[1].bytes = <<a>>
            /\ tx[1].ok <=> Len(tx) = 2
            /\ Len(tx) = 2 =>
                /\ tx[2].kind = "write" /\ Len(tx[2].bytes) = 2
                /\ tx[2].bytes[1] = a
                /\ \A b \in 0..7 :
                    Bit(tx[2].bytes[2], b) =
                        IF b = n THEN (IF op.args.level = "High" THEN 1 ELSE 0)
                                 ELSE Bit(tx[1].rx[1], b)
                /\ tx[1].rx = <<255>> =>
                    tx[2].bytes[2] = (IF op.args.level = "High" THEN 255 ELSE 255 - 2 ^ n)
            /\ res = "Ok" <=> (Len(tx) = 2 /\ tx[2].ok)
            /\ res = "Ok" => regs[a] = tx[2].bytes[2]

C30_Witness ==
    /\ born = "Configuring"
    /\ handle = [kind |-> "pin", port |-> 1, pin |-> 3]
    /\ op.name = "write" /\ op.args.level = "Low" /\ res = "Ok"
    /\ tx[1].bytes = <<19>> /\ tx[1].rx = <<255>> /\ tx[2].bytes = <<19, 247>>

(* C31: write and read use the same port-to-byte mapping: decoding, the way
   read decodes the two bytes it receives (first byte Port A, second byte
   Port B), the two data bytes write(v) sends gives v again. *)
C31_WriteReadRoundTrip ==
    (op.name = "write" /\ born = "Configuring") =>
        /\ Len(tx) = 1 /\ Len(tx[1].bytes) = 3
        /\ read_u16_le(<<tx[1].bytes[2], tx[1].bytes[3]>>) = op.args.value
        /\ res = "Ok" =>
            read(Ctx(regs, 0), address).ret = <<op.args.value>>

C32_NoRollback_Step ==
        ( /\ op'.name \in {"set_as_input", "set_as_output", "set_pull",
                           "set_interrupt_mirror"}
          /\ \E i \in 2..Len(tx') :
                /\ tx'[i].kind = "write" /\ ~tx'[i].ok
                /\ tx'[i].bytes[1] % 2 = 1 )
        => LET n == Len(tx')
               wa == tx'[n - 1]
               wb == tx'[n]
           IN  /\ wb.kind = "write" /\ ~wb.ok
               /\ wa.kind = "write" /\ wa.ok
               /\ wa.bytes[1] = wb.bytes[1] - 1
               /\ Cardinality({i \in 1..n : tx'[i].kind = "write"}) = 2
               /\ regs'[wa.bytes[1]] = wa.bytes[2]
               /\ \A a \in RegAddrs \ {wa.bytes[1]} : regs'[a] = regs[a]
               /\ res' = "CommunicationErr"
               /\ phase' = "Consumed"

(* C32: there is no rollback after a partial failure: when the Port B write
   of set_as_input, set_as_output, set_pull or set_interrupt_mirror fails, the
   failed write is the last transaction of the call (no compensating write),
   the Port A register holds the value the call wrote to it, the Port B
   register and every other register are as before the call, and the call
   returns CommunicationErr with the handle consumed. *)
C32_NoRollback == [][C32_NoRollback_Step]_vars

C32_Witness ==
    /\ born = "Configuring"
    /\ op.name = "set_interrupt_mirror" /\ op.args.level = "MirrorOff"
    /\ Len(tx) = 4 /\ ~tx[4].ok /\ res = "CommunicationErr" /\ phase = "Consumed"
    /\ tx[3].bytes = <<10, 191>> /\ regs[Iocon] = 191 /\ regs[Iocon + 1] = 255

C33_InterruptFrame_Step ==
        op'.name \in {"set_interrupt_on", "set_interrupt_compare",
                      "enable_interrupt", "disable_interrupt"}
        => LET target == RmwRegister(op'.name) + op'.args.port
           IN  /\ \A i \in 1..Len(tx') :
                    tx'[i].kind = "write" =>
                        /\ i > 1
                        /\ tx'[i - 1].kind = "write_read" /\ tx'[i - 1].ok
                        /\ tx'[i - 1].bytes[1] = tx'[i].bytes[1]
                        /\ tx'[i].bytes[1] = target
               /\ \A a \in RegAddrs \ {target} : regs'[a] = regs[a]
               /\ regs'[target] # regs[target] =>
                    /\ res' = "Ok"
                    /\ \A b \in (0..7) \ {op'.args.pin} :
                        Bit(regs'[target], b) = Bit(regs[target], b)

(* C33: on a chip whose registers hold the last value written, a call of
   set_interrupt_on, set_interrupt_compare, enable_interrupt or
   disable_interrupt changes no register bit other than the bit of its own
   (port, pin) in its own register (INTCON, DEFVAL, GPINTEN), so after any
   sequence of such calls every INTCON / DEFVAL / GPINTEN bit of a (port, pin)
   that no call targeted has its initial value; and every write of these
   calls goes to the register address of the successful read right before
   it. *)
C33_InterruptFrame == [][C33_InterruptFrame_Step]_vars

C33_Witness ==
    /\ born = "Configuring" /\ nops = 3
    /\ op.name = "set_interrupt_compare" /\ res = "Ok"
    /\ op.args.port = 1 /\ op.args.pin = 0 /\ op.args.level = "High"
    /\ regs[Intcon] = 173 /\ regs[Intcon + 1] = 223
    /\ regs[Defval] = 173 /\ regs[Defval + 1] = 223
    /\ regs[Gpinten] = 173 /\ regs[Gpinten + 1] = 222

(* C34: every operation ends, with a Result, after a bounded number of
   transactions issued one after the other, whatever the transport answers:
   ready none; write, read, read_pin, get_interrupted_pin exactly 1;
   set_as_input, set_as_output, set_pull, write_pin, set_interrupt_on,
   enable_interrupt, disable_interrupt at most 2; set_interrupt_compare at
   most 3; set_interrupt_mirror at most 4; and a transaction is issued only
   once the one before it has completed (and, here, succeeded). *)
C34_BoundedTransactions ==
    op.name \in {"ready", "write", "read", "read_pin", "get_interrupted_pin",
                 "set_as_input", "set_as_output", "set_pull", "write_pin",
                 "set_interrupt_on", "enable_interrupt", "disable_interrupt",
                 "set_interrupt_compare", "set_interrupt_mirror"} =>
        /\ res \in {"Ok", "CommunicationErr", "InvalidInterruptSetting", "Some", "None"}
        /\ Len(tx) <= MaxTransactions(op.name)
        /\ op.name \in {"ready", "write", "read", "read_pin", "get_interrupted_pin"}
              => Len(tx) = MaxTransactions(op.name)
        /\ op.name # "ready" => Len(tx) >= 1
        /\ \A i \in 1..Len(tx) :
            /\ tx[i].ok \in BOOLEAN
            /\ i < Len(tx) => tx[i].ok
            /\ tx[i].address = address

C34_Witness ==
    /\ born = "Configuring"
    /\ op.name = "set_interrupt_compare" /\ Len(tx) = 3 /\ ~tx[3].ok
    /\ res = "CommunicationErr"

C35_FacadesRefine_Step ==
        op'.name \in {"set_as_input", "set_as_output", "set_pull"}
        => LET pa == PortLevel(op'.name, Ctx(regs, IF tx'[1].ok THEN 0 ELSE 1),
                               address, Porta, op'.args.level)
               pb == PortLevel(op'.name,
                               Ctx(pa.regs, IF Len(tx') = 2 /\ ~tx'[2].ok THEN 1 ELSE 0),
                               address, Portb, op'.args.level)
           IN  /\ Len(pa.tx) = 1 /\ Len(pb.tx) = 1
               /\ pa.res = "Ok" =>
                    /\ tx' = pa.tx \o pb.tx
                    /\ regs' = pb.regs
                    /\ res' = pb.res
                    /\ res' = "Ok" => phase' = pb.phase
               /\ pa.res # "Ok" =>
                    /\ tx' = pa.tx
                    /\ regs' = pa.regs
                    /\ res' = pa.res

(* C35: the chip-level and the port-level facade refine the same register
   protocol: from any device state, chip-level set_as_input (set_as_output,
   set_pull(p)) issues the write transaction of the port-level operation on a
   PortA handle followed by that of the same operation on a PortB handle, and
   leaves the device registers (IODIR, resp. GPPU, of both ports among them),
   the Result and the resulting State as the two port-level calls do; when
   the Port A write fails it stops where the PortA handle's call stops. *)
C35_FacadesRefine == [][C35_FacadesRefine_Step]_vars

C35_Witness ==
    /\ born = "Configuring" /\ nops = 2
    /\ op.name = "set_pull" /\ op.args.level = "Low" /\ res = "Ok"
    /\ regs[Gppu] = 0 /\ regs[Gppu + 1] = 0 /\ regs[Iodir] = 255
    /\ tx = portmode_set_pull(Ctx(regs, 0), address, Porta, "Low").tx
            \o portmode_set_pull(Ctx(regs, 0), address, Portb, "Low").tx

(* C36: pin-level set_as_input / set_as_output (Pina0 .. Pinb7) read
   IODIR | own port and write back to the same address the byte read with
   only the handle's own pin bit set to 1 (input) or cleared to 0 (output):
   the directions of the other 7 pins of the port, set earlier through other
   pin handles, are written back as read and so preserved on the device; when
   the IODIR read fails no write is issued. *)
C36_PinDirectionFrame ==
    ( /\ handle.kind = "pin"
      /\ op.name \in {"set_as_input", "set_as_output"} ) =>
        LET a == Iodir + handle.port
        IN  /\ Len(tx) \in {1, 2}
            /\ tx[1].kind = "write_read" /\ tx[1].bytes = <<a>>
            /\ tx[1].ok <=> Len(tx) = 2
            /\ ~tx[1].ok => res = "CommunicationErr"
            /\ Len(tx) = 2 =>
                /\ tx[2].kind = "write" /\ Len(tx[2].bytes) = 2
                /\ tx[2].bytes[1] = a
                /\ \A b \in 0..7 :
                    Bit(tx[2].bytes[2], b) =
                        IF b = handle.pin
                        THEN (IF op.name = "set_as_input" THEN 1 ELSE 0)
                        ELSE Bit(tx[1].rx[1], b)
                /\ tx[2].ok => regs[a] = tx[2].bytes[2]
                /\ ~tx[2].ok => regs[a] = tx[1].rx[1]
            /\ res = "Ok" <=> (Len(tx) = 2 /\ tx[2].ok)

C36_Witness ==
    /\ born = "Configuring"
    /\ handle = [kind |-> "pin", port |-> 1, pin |-> 3]
    /\ op.name = "set_as_input" /\ res = "Ok"
    /\ tx[1].bytes = <<1>> /\ tx[1].rx = <<128>> /\ tx[2].bytes = <<1, 136>>
    /\ regs[Iodir + 1] = 136 /\ regs[Iodir] = 0

(* C37: in the per-pin facade of lib.rs, set_pin_input and
   set_pin_input_pullup configure the pin as an input: the value they write
   to IODIR has the pin's bit set to 1; set_pin_output writes it cleared to
   0. *)
C37_PinDirectionBit ==
    op.name \in {"set_pin_input", "set_pin_input_pullup", "set_pin_output"} =>
        \A i \in 1..Len(tx) :
            (tx[i].kind = "write" /\ TxRegister(tx[i]) = Iodir) =>
                /\ tx[i].bytes[1] = Iodir + handle.port
                /\ Bit(tx[i].bytes[2], handle.pin) =
                        (IF op.name = "set_pin_output" THEN 0 ELSE 1)

(* C38: every transport failure is propagated to the immediate caller as
   CommunicationErr, in the per-pin facade of lib.rs as well: when the I2C
   write issued by Pin's register write (Operation::write) fails, or a
   transaction of find_me, its IOCON write included, fails, the operation
   returns CommunicationErr, not Ok. *)
C38_LibFailurePropagated ==
    op.name \in {"Operation::write", "Operation::read", "find_me"} =>
        /\ (\E i \in 1..Len(tx) : ~tx[i].ok) => res = "CommunicationErr"
        /\ res = "Ok" => \A i \in 1..Len(tx) : tx[i].ok

(* C39: no operation panics on an ordinary operational failure: in the
   per-pin facade of lib.rs, Pin<Output>::high, Pin<Output>::low and
   set_pin_output return an error value instead of reaching a panic state,
   CommunicationErr when the OLAT / IODIR read fails and MissingAddress when
   the pin has no bus address bound, and a missing address is detected
   before any bus transaction is issued. *)
C39_NoPanic ==
    op.name \in {"high", "low", "set_pin_output"} =>
        /\ res # "panic" /\ phase # "Panicked"
        /\ address = <<>> => res = "MissingAddress" /\ tx = <<>>
        /\ (Len(tx) >= 1 /\ ~tx[1].ok) => res = "CommunicationErr"

====
